---- MODULE Spec2Model ----
(***************************************************************************)
(* Gateway runtime of jarvis-ai-assistant (src/services/api-gateway):      *)
(* rate limiter, service registry, load balancer and the proxy handlers.   *)
(* Time is the value of time.time() in whole seconds.                      *)
(***************************************************************************)
EXTENDS Integers, Sequences, FiniteSets, TLC

(* ------------------------------ bounds --------------------------------- *)
\* the readings of time.time() at which something happens
TimePoints == {0, 5, 10, 60, 65, 70, 300, 305, 360, 370}
\* requests_per_minute given to the constructor or update_config is in 1..MaxRpm
MaxRpm == 3
\* burst_limit given to update_config is in 1..MaxBurst
MaxBurst == 2
\* a service holds at most MaxInstances instances in the balancer
MaxInstances == 2
\* weights given to add_service_instance are in 1..MaxWeight
MaxWeight == 3
\* get_service_url succeeds at most MaxResolves times in a run
MaxResolves == 5
\* the gateway proxies at most MaxCalls calls in a run
MaxCalls == 2
\* a client sends at most MaxMessages messages on its multiplexed connection
MaxMessages == 3
\* each side of a duplex session sends at most MaxFrames frames
MaxFrames == 2
\* manager calls suspended at a send at one time
MaxPending == 2

Clients == {"x"}
\* the clients of the limiter when several are tracked at once
CleanupClients == {"x", "y"}
AllClients == Clients \cup CleanupClients
ServiceNames == {"voice-service"}
\* the names given to the registry when it is driven on its own
RegistryNames == {"voice-service", "brain-service"}
\* addresses as given to register_service: with and without a scheme
RawUrls == {<<"h1:8001">>, <<"http://", "h1:8001">>, <<"http://", "h2:8001">>}
\* the WebSocket objects the manager can be handed
Sockets == {"w1", "w2"}
\* latencies reported to the balancer or measured by a probe
ResponseTimes == {1, 2}
\* what GET <health_url> can come to: a response with a status code and a
\* body (not JSON, JSON that is no object, or a JSON object), or an exception
HealthBodies ==
  {[json |-> FALSE],
   [json |-> TRUE, object |-> FALSE],
   [json |-> TRUE, object |-> TRUE, fields |-> [k \in {} |-> "None"]],
   [json |-> TRUE, object |-> TRUE, fields |-> [k \in {"status"} |-> "healthy"]],
   [json |-> TRUE, object |-> TRUE, fields |-> [k \in {"status"} |-> "degraded"]]}
ProbeResponses ==
  {[kind |-> "response", status_code |-> 200, body |-> b] : b \in HealthBodies}
  \cup {[kind |-> "response", status_code |-> 503, body |-> [json |-> FALSE]]}
  \cup {[kind |-> k] : k \in {"timeout", "connect_error"}}
Strategies == {"round_robin", "random", "least_connections",
               "weighted_round_robin", "least_response_time"}
RotatingStrategies == {"round_robin", "weighted_round_robin"}
\* Python's None for a name, for a time, and for an optional argument
None == "None"
NoTime == -1
Nothing == <<>>
Some(v) == <<v>>

(* ------------------------- program constants --------------------------- *)
block_duration == 300
DefaultBurstLimit == 10
DefaultWindowSize == 60
BurstWindow == 10
\* RateLimiter.is_allowed is declared with def, not async def
IsAllowedIsCoroutine == FALSE

VARIABLES
  now,            \* time.time()
  config,         \* RateLimiter.config
  requests,       \* RateLimiter.requests: client -> deque of timestamps
  requestKeys,    \* the keys of RateLimiter.requests in the order the dict holds them
  blocked_ips,    \* RateLimiter.blocked_ips: client -> block-until time
  lastAllow,      \* history: per client, outcome of its last is_allowed or
                  \* unblock_ip call
  blockStart,     \* history: per client, time of the call that placed the block
  callCount,      \* history: per client, number of is_allowed calls made
  firstCallAt,    \* history: per client, time of its first is_allowed call
  pristine,       \* history: only is_allowed calls were made since construction
  allowedLog,     \* history: per client, the times of its last allowed calls
  mw,             \* outcome of the last middleware run
  services,       \* ServiceRegistry.services: name -> ServiceInfo
  is_running,     \* ServiceRegistry.is_running
  loop,           \* position of the _health_monitoring_loop task
  probes,         \* probes of the running cycle: name -> "live" or "stale"
  regPending,     \* register_service calls waiting for their health probe
  probed,         \* history: names whose health flag was last set by the loop
  monitor,        \* the stop_health_monitoring or cleanup call in progress and
                  \* the loop tasks older than health_check_task still alive
  lastCall,       \* history: the last registry call or probe that returned
  registered,     \* history: per name, the addresses registered under it
  strategy,       \* LoadBalancer.strategy
  service_instances,    \* LoadBalancer.service_instances: name -> list
  round_robin_counters, \* LoadBalancer.round_robin_counters: name -> int
  lastResolve,    \* history: outcome of the last get_service_url call and the
                  \* rotation counter it found
  lastReport,     \* history: the last update_instance_* call and what it returned
  rrLog,          \* history: per service, the positions selected since the
                  \* instance list, the health flags or the strategy changed
  calls,          \* the proxied calls of the gateway
  duplex,         \* one websocket_proxy session, followed frame by frame
  mux,            \* one universal_websocket connection, message by message
  lifespan,       \* the lifespan context of the app and the http_client it made
  manager         \* WebSocketManager: its sets and dicts, and its calls that
                  \* are suspended at a send

limiterVars == <<config, requests, requestKeys, blocked_ips, lastAllow, blockStart,
                 callCount, firstCallAt, pristine, allowedLog, mw>>
registryHist == <<lastCall, registered>>
registryVars == <<services, is_running, loop, probes, regPending, probed, monitor,
                  registryHist>>
balancerVars == <<strategy, service_instances, round_robin_counters,
                  lastResolve, lastReport, rrLog>>

sessionVars == <<duplex, mux>>

vars == <<now, limiterVars, registryVars, balancerVars, calls, sessionVars,
          lifespan, manager>>

(* ------------------------------ helpers -------------------------------- *)
EmptyMap == [k \in {} |-> None]
Put(f, k, v) == [x \in (DOMAIN f) \cup {k} |-> IF x = k THEN v ELSE f[x]]
Del(f, k) == [x \in (DOMAIN f) \ {k} |-> f[x]]

(* ---------------------------- rate limiter ----------------------------- *)
\* while request_times and current_time - request_times[0] > window_size: popleft()
RECURSIVE EvictOld(_, _, _)
EvictOld(q, t, w) ==
  IF q # <<>> /\ t - Head(q) > w THEN EvictOld(Tail(q), t, w) ELSE q

\* sum(1 for req_time in request_times if current_time - req_time < 10)
RecentRequests(q, t) == Cardinality({i \in 1..Len(q) : t - q[i] < BurstWindow})

\* self.requests[client_ip] on a defaultdict(deque)
RequestTimes(reqs, c) == IF c \in DOMAIN reqs THEN reqs[c] ELSE <<>>

\* is_allowed as it would be if exceeding the window limit only rejected the call
IsAllowed_NoBlock(c, t, cfg, reqs, blocked) ==
  IF c \in DOMAIN blocked /\ t < blocked[c]
  THEN [result |-> FALSE, reason |-> "blocked", requests |-> reqs, blocked_ips |-> blocked]
  ELSE
    LET blocked1 == IF c \in DOMAIN blocked THEN Del(blocked, c) ELSE blocked
        kept == EvictOld(RequestTimes(reqs, c), t, cfg.window_size)
        reqs1 == Put(reqs, c, kept)
    IN IF Len(kept) >= cfg.requests_per_minute
       THEN [result |-> FALSE, reason |-> "limit", requests |-> reqs1,
             blocked_ips |-> blocked1]
       ELSE IF RecentRequests(kept, t) >= cfg.burst_limit
       THEN [result |-> FALSE, reason |-> "burst", requests |-> reqs1,
             blocked_ips |-> blocked1]
       ELSE [result |-> TRUE, reason |-> "allowed",
             requests |-> Put(reqs, c, Append(kept, t)),
             blocked_ips |-> blocked1]

\* is_allowed as it would be if a burst rejection also blocked the client
IsAllowed_BurstBlocks(c, t, cfg, reqs, blocked) ==
  IF c \in DOMAIN blocked /\ t < blocked[c]
  THEN [result |-> FALSE, reason |-> "blocked", requests |-> reqs, blocked_ips |-> blocked]
  ELSE
    LET blocked1 == IF c \in DOMAIN blocked THEN Del(blocked, c) ELSE blocked
        kept == EvictOld(RequestTimes(reqs, c), t, cfg.window_size)
        reqs1 == Put(reqs, c, kept)
    IN IF Len(kept) >= cfg.requests_per_minute
       THEN [result |-> FALSE, reason |-> "limit", requests |-> reqs1,
             blocked_ips |-> Put(blocked1, c, t + block_duration)]
       ELSE IF RecentRequests(kept, t) >= cfg.burst_limit
       THEN [result |-> FALSE, reason |-> "burst", requests |-> reqs1,
             blocked_ips |-> Put(blocked1, c, t + block_duration)]
       ELSE [result |-> TRUE, reason |-> "allowed",
             requests |-> Put(reqs, c, Append(kept, t)),
             blocked_ips |-> blocked1]

\* is_allowed as it would be if a block still held at the moment it runs out
IsAllowed_StrictExpiry(c, t, cfg, reqs, blocked) ==
  IF c \in DOMAIN blocked /\ t <= blocked[c]
  THEN [result |-> FALSE, reason |-> "blocked", requests |-> reqs, blocked_ips |-> blocked]
  ELSE
    LET blocked1 == IF c \in DOMAIN blocked THEN Del(blocked, c) ELSE blocked
        kept == EvictOld(RequestTimes(reqs, c), t, cfg.window_size)
        reqs1 == Put(reqs, c, kept)
    IN IF Len(kept) >= cfg.requests_per_minute
       THEN [result |-> FALSE, reason |-> "limit", requests |-> reqs1,
             blocked_ips |-> Put(blocked1, c, t + block_duration)]
       ELSE IF RecentRequests(kept, t) >= cfg.burst_limit
       THEN [result |-> FALSE, reason |-> "burst", requests |-> reqs1,
             blocked_ips |-> blocked1]
       ELSE [result |-> TRUE, reason |-> "allowed",
             requests |-> Put(reqs, c, Append(kept, t)),
             blocked_ips |-> blocked1]

\* is_allowed as it would be if a call made during a block renewed the block
\* and evicted old timestamps
IsAllowed_ExtendsBlock(c, t, cfg, reqs, blocked) ==
  IF c \in DOMAIN blocked /\ t < blocked[c]
  THEN [result |-> FALSE, reason |-> "blocked",
        requests |-> Put(reqs, c, EvictOld(RequestTimes(reqs, c), t, cfg.window_size)),
        blocked_ips |-> Put(blocked, c, t + block_duration)]
  ELSE
    LET blocked1 == IF c \in DOMAIN blocked THEN Del(blocked, c) ELSE blocked
        kept == EvictOld(RequestTimes(reqs, c), t, cfg.window_size)
        reqs1 == Put(reqs, c, kept)
    IN IF Len(kept) >= cfg.requests_per_minute
       THEN [result |-> FALSE, reason |-> "limit", requests |-> reqs1,
             blocked_ips |-> Put(blocked1, c, t + block_duration)]
       ELSE IF RecentRequests(kept, t) >= cfg.burst_limit
       THEN [result |-> FALSE, reason |-> "burst", requests |-> reqs1,
             blocked_ips |-> blocked1]
       ELSE [result |-> TRUE, reason |-> "allowed",
             requests |-> Put(reqs, c, Append(kept, t)),
             blocked_ips |-> blocked1]

\* is_allowed as it would be if it rejected only above the limit
IsAllowed_OffByOne(c, t, cfg, reqs, blocked) ==
  IF c \in DOMAIN blocked /\ t < blocked[c]
  THEN [result |-> FALSE, reason |-> "blocked", requests |-> reqs, blocked_ips |-> blocked]
  ELSE
    LET blocked1 == IF c \in DOMAIN blocked THEN Del(blocked, c) ELSE blocked
        kept == EvictOld(RequestTimes(reqs, c), t, cfg.window_size)
        reqs1 == Put(reqs, c, kept)
    IN IF Len(kept) > cfg.requests_per_minute
       THEN [result |-> FALSE, reason |-> "limit", requests |-> reqs1,
             blocked_ips |-> Put(blocked1, c, t + block_duration)]
       ELSE IF RecentRequests(kept, t) >= cfg.burst_limit
       THEN [result |-> FALSE, reason |-> "burst", requests |-> reqs1,
             blocked_ips |-> blocked1]
       ELSE [result |-> TRUE, reason |-> "allowed",
             requests |-> Put(reqs, c, Append(kept, t)),
             blocked_ips |-> blocked1]

\* is_allowed as it would be without the eviction of old timestamps
IsAllowed_NoEviction(c, t, cfg, reqs, blocked) ==
  IF c \in DOMAIN blocked /\ t < blocked[c]
  THEN [result |-> FALSE, reason |-> "blocked", requests |-> reqs, blocked_ips |-> blocked]
  ELSE
    LET blocked1 == IF c \in DOMAIN blocked THEN Del(blocked, c) ELSE blocked
        kept == RequestTimes(reqs, c)
        reqs1 == Put(reqs, c, kept)
    IN IF Len(kept) >= cfg.requests_per_minute
       THEN [result |-> FALSE, reason |-> "limit", requests |-> reqs1,
             blocked_ips |-> Put(blocked1, c, t + block_duration)]
       ELSE IF RecentRequests(kept, t) >= cfg.burst_limit
       THEN [result |-> FALSE, reason |-> "burst", requests |-> reqs1,
             blocked_ips |-> blocked1]
       ELSE [result |-> TRUE, reason |-> "allowed",
             requests |-> Put(reqs, c, Append(kept, t)),
             blocked_ips |-> blocked1]

\* RateLimiter.is_allowed: the value returned and the state it leaves
IsAllowed(c, t, cfg, reqs, blocked) ==
  IF c \in DOMAIN blocked /\ t < blocked[c]
  THEN [result |-> FALSE, reason |-> "blocked", requests |-> reqs, blocked_ips |-> blocked]
  ELSE
    LET blocked1 == IF c \in DOMAIN blocked THEN Del(blocked, c) ELSE blocked
        kept == EvictOld(RequestTimes(reqs, c), t, cfg.window_size)
        reqs1 == Put(reqs, c, kept)
    IN IF Len(kept) >= cfg.requests_per_minute
       THEN [result |-> FALSE, reason |-> "limit", requests |-> reqs1,
             blocked_ips |-> Put(blocked1, c, t + block_duration)]
       ELSE IF RecentRequests(kept, t) >= cfg.burst_limit
       THEN [result |-> FALSE, reason |-> "burst", requests |-> reqs1,
             blocked_ips |-> blocked1]
       ELSE [result |-> TRUE, reason |-> "allowed",
             requests |-> Put(reqs, c, Append(kept, t)),
             blocked_ips |-> blocked1]

\* a dict keeps its keys in the order they were first stored
InsertKey(keys, c, reqs) ==
  IF c \in DOMAIN reqs /\ \A i \in 1..Len(keys) : keys[i] # c
  THEN Append(keys, c) ELSE keys

\* the last MaxRpm + 1 entries of a log
LastEntries(log) ==
  IF Len(log) <= MaxRpm + 1 THEN log ELSE SubSeq(log, Len(log) - MaxRpm, Len(log))

\* the state change of one is_allowed call, with its history bookkeeping
AllowEffect(c) ==
  LET r == IsAllowed(c, now, config, requests, blocked_ips)
  IN /\ requests' = r.requests
     /\ requestKeys' = InsertKey(requestKeys, c, r.requests)
     /\ blocked_ips' = r.blocked_ips
     /\ lastAllow' = [lastAllow EXCEPT ![c] = r.reason]
     /\ blockStart' = IF pristine /\ r.reason = "limit"
                      THEN [blockStart EXCEPT ![c] = now] ELSE blockStart
     /\ callCount' = IF pristine /\ callCount[c] <= MaxRpm
                     THEN [callCount EXCEPT ![c] = @ + 1] ELSE callCount
     /\ firstCallAt' = IF pristine /\ callCount[c] = 0
                       THEN [firstCallAt EXCEPT ![c] = now] ELSE firstCallAt
     /\ allowedLog' = IF pristine /\ r.result
                      THEN [allowedLog EXCEPT ![c] = LastEntries(Append(@, now))]
                      ELSE allowedLog

\* an operation other than is_allowed ends the recorded call history
ForgetHistory ==
  /\ pristine' = FALSE
  /\ allowedLog' = [c \in AllClients |-> <<>>]
  /\ blockStart' = [c \in AllClients |-> NoTime]
  /\ callCount' = [c \in AllClients |-> 0]
  /\ firstCallAt' = [c \in AllClients |-> NoTime]

\* a direct call of RateLimiter.is_allowed(client_ip)
is_allowed(c) ==
  /\ AllowEffect(c)
  /\ UNCHANGED <<now, config, pristine, mw, registryVars, balancerVars, calls, sessionVars, lifespan, manager>>

\* unblock_ip as it would be if it also dropped the client's timestamps
Unblock_ClearsHistory(c, reqs, blocked) ==
  IF c \in DOMAIN blocked
  THEN [result |-> TRUE, requests |-> Put(reqs, c, <<>>), blocked_ips |-> Del(blocked, c)]
  ELSE [result |-> FALSE, requests |-> reqs, blocked_ips |-> blocked]

\* RateLimiter.unblock_ip: the value returned and the state it leaves
Unblock(c, reqs, blocked) ==
  IF c \in DOMAIN blocked
  THEN [result |-> TRUE, requests |-> reqs, blocked_ips |-> Del(blocked, c)]
  ELSE [result |-> FALSE, requests |-> reqs, blocked_ips |-> blocked]

\* RateLimiter.unblock_ip(client_ip)
unblock_ip(c) ==
  LET r == Unblock(c, requests, blocked_ips)
  IN /\ blocked_ips' = r.blocked_ips
     /\ requests' = r.requests
     /\ lastAllow' = [lastAllow EXCEPT ![c] = IF r.result THEN "unblocked"
                                                         ELSE "not_blocked"]
     /\ ForgetHistory
     /\ UNCHANGED <<now, config, requestKeys, mw, registryVars, balancerVars,
                    calls, sessionVars, lifespan, manager>>

\* RateLimiter.update_config(requests_per_minute, burst_limit, window_size)
update_config(rpm, burst, window) ==
  /\ config' = [requests_per_minute |-> rpm,
                burst_limit |-> IF burst # Nothing THEN burst[1] ELSE config.burst_limit,
                window_size |-> IF window # Nothing THEN window[1] ELSE config.window_size]
  /\ config' # config
  /\ lastAllow' = [c \in AllClients |-> None]
  /\ ForgetHistory
  /\ UNCHANGED <<now, requests, requestKeys, blocked_ips, mw, registryVars, balancerVars, calls, sessionVars, lifespan, manager>>

\* for ip, request_times in self.requests.items(): evict, then delete the
\* entry if it is empty.  The deletion changes the size of the dict being
\* iterated, so the iterator's next step raises RuntimeError, which the
\* except clause of cleanup_expired_entries logs: the entries behind the
\* first deleted one are not visited.
RECURSIVE CleanRequests(_, _, _, _)
CleanRequests(keys, reqs, t, w) ==
  IF keys = <<>> THEN reqs
  ELSE LET c == Head(keys)
           kept == EvictOld(reqs[c], t, w)
       IN IF kept = <<>> THEN Del(reqs, c)
          ELSE CleanRequests(Tail(keys), Put(reqs, c, kept), t, w)

\* the blocks left once those with current_time >= block_time are deleted
LiveBlocks(blocked, t) ==
  [c \in {k \in DOMAIN blocked : t < blocked[k]} |-> blocked[c]]

\* RateLimiter.cleanup_expired_entries
cleanup_expired_entries ==
  /\ blocked_ips' = LiveBlocks(blocked_ips, now)
  /\ requests' = CleanRequests(requestKeys, requests, now, config.window_size)
  /\ requestKeys' = SelectSeq(requestKeys, LAMBDA c : c \in DOMAIN requests')
  /\ lastAllow' = [c \in AllClients |-> None]
  /\ ForgetHistory
  /\ UNCHANGED <<now, config, mw, registryVars, balancerVars, calls, sessionVars,
                 lifespan, manager>>

\* time.time() moves on
Tick ==
  /\ \E t \in TimePoints :
       /\ t > now
       /\ \A u \in TimePoints : u > now => t <= u
       /\ now' = t
  /\ UNCHANGED <<limiterVars, registryVars, balancerVars, calls, sessionVars, lifespan, manager>>

(* ------------------------------ middleware ----------------------------- *)
\* `await v`: a coroutine yields its value, any other object raises TypeError
Await(v, isCoroutine) ==
  IF isCoroutine THEN [raised |-> FALSE, value |-> v]
                 ELSE [raised |-> TRUE, value |-> v]

\* status the middleware answers with; "next" stands for the handler's response
MiddlewareOutcome(limiterResult, protected, authenticated, handlerRaises) ==
  LET a == Await(limiterResult, IsAllowedIsCoroutine)
  IN IF a.raised THEN [status |-> 500, forwarded |-> FALSE]
     ELSE IF ~a.value THEN [status |-> 429, forwarded |-> FALSE]
     ELSE IF protected /\ ~authenticated THEN [status |-> 401, forwarded |-> FALSE]
     ELSE IF handlerRaises THEN [status |-> 500, forwarded |-> TRUE]
     ELSE [status |-> 200, forwarded |-> TRUE]

\* auth_and_rate_limit_middleware for one request of client c
auth_and_rate_limit_middleware(c, protected, authenticated, handlerRaises) ==
  /\ AllowEffect(c)
  /\ LET r == IsAllowed(c, now, config, requests, blocked_ips)
         o == MiddlewareOutcome(r.result, protected, authenticated, handlerRaises)
     IN mw' = [client |-> c, limiter |-> r.result,
               authOk |-> (~protected \/ authenticated),
               status |-> o.status, forwarded |-> o.forwarded]
  /\ UNCHANGED <<now, config, pristine, registryVars, balancerVars, calls, sessionVars, lifespan, manager>>

(* --------------------------- service registry -------------------------- *)
\* if not url.startswith(("http://", "https://")): url = f"http://{url}"
NormalizeUrl(url) ==
  IF Head(url) \in {"http://", "https://"} THEN url ELSE <<"http://">> \o url

HealthUrl(url) == url \o <<"/health">>

\* the addresses the registry can hold
Urls == {NormalizeUrl(raw) : raw \in RawUrls}

\* the ServiceInfo built by register_service (metadata is opaque and left out)
NewServiceInfo(name, url, healthy, t) ==
  [name |-> name, url |-> url, health_url |-> HealthUrl(url),
   registered_at |-> t, last_health_check |-> t,
   is_healthy |-> healthy, response_time |-> NoTime]

\* _check_service_health as it would be if every 200 counted as healthy
CheckServiceHealth_Any200(resp) ==
  resp.kind = "response" /\ resp.status_code = 200

\* _check_service_health: an exception of the request gives False; a 200
\* whose body is not JSON, or is JSON without a get method, gives True by the
\* bare except; a 200 with a JSON object gives data.get("status") == "healthy"
CheckServiceHealth(resp) ==
  IF resp.kind # "response" THEN FALSE
  ELSE IF resp.status_code # 200 THEN FALSE
  ELSE IF ~resp.body.json \/ ~resp.body.object THEN TRUE
  ELSE "status" \in DOMAIN resp.body.fields
         /\ resp.body.fields["status"] = "healthy"

\* self.services[name] = service_info
StoreService_KeepFirst(svcs, n, info) ==
  IF n \in DOMAIN svcs THEN svcs ELSE Put(svcs, n, info)

StoreService(svcs, n, info) == Put(svcs, n, info)

\* what register_service returns: its except clause is reached by no step
RegisterResult(healthy) == TRUE

\* unregister_service as it would be if it reported every name as removed
UnregisterResult_Ok(svcs, n) == TRUE

\* what unregister_service returns
UnregisterResult(svcs, n) == n \in DOMAIN svcs

\* get_service_url as it would be if it did not look at the health flag
RegistryUrl_IgnoresHealth(svcs, s) ==
  IF s \in DOMAIN svcs THEN Some(svcs[s].url) ELSE Nothing

\* ServiceRegistry.get_service_url: the address of a registered healthy service
RegistryUrl(svcs, s) ==
  IF s \in DOMAIN svcs /\ svcs[s].is_healthy THEN Some(svcs[s].url) ELSE Nothing

\* get_healthy_services and get_unhealthy_services: lists of names
HealthyServices(svcs) == {n \in DOMAIN svcs : svcs[n].is_healthy}
UnhealthyServices(svcs) == {n \in DOMAIN svcs : ~svcs[n].is_healthy}

\* the addresses registered under a name since it was last unregistered
Registered(reg, n) == IF n \in DOMAIN reg THEN reg[n] ELSE {}

\* a probe of the running cycle holds the ServiceInfo object it was started
\* with; once the name is re-registered or unregistered that object is no
\* longer the registered one
Detach(pr, n) == IF n \in DOMAIN pr THEN [pr EXCEPT ![n] = "stale"] ELSE pr

\* start_health_monitoring as it would be without its is_running test
StartsTask_Always(running) == TRUE

\* start_health_monitoring creates a loop task unless is_running is set
StartsTask(running) == ~running

\* a loop task that has not finished: it waits, probes, or has been
\* cancelled and has not yet run into its CancelledError
TaskAlive(pos) == pos \in {"waiting", "probing", "cancelling"}

\* no stop_health_monitoring or cleanup call in progress, no older task
IdleMonitor == [stop |-> "idle", caller |-> None, older |-> 0]

\* register_service up to its await of _check_service_health; one call per
\* name is in flight at a time
register_service_start(n, raw) ==
  /\ n \notin DOMAIN regPending
  /\ regPending' = Put(regPending, n, NormalizeUrl(raw))
  /\ UNCHANGED <<now, limiterVars, services, is_running, loop, probes, probed,
                 monitor, registryHist, balancerVars, calls, sessionVars, lifespan, manager>>

\* register_service from the probe's answer on: store the record and start
\* the monitoring loop if it is not running
register_service_done(n, healthy) ==
  /\ n \in DOMAIN regPending
  /\ services' = StoreService(services, n,
                              NewServiceInfo(n, regPending[n], healthy, now))
  /\ regPending' = Del(regPending, n)
  /\ probes' = Detach(probes, n)
  /\ probed' = probed \ {n}
  /\ lastCall' = [op |-> "register", name |-> n,
                  result |-> RegisterResult(healthy),
                  known |-> n \in DOMAIN services /\ services[n].url = regPending[n]]
  /\ registered' = Put(registered, n, Registered(registered, n) \cup {regPending[n]})
  /\ IF StartsTask(is_running)
     THEN /\ is_running' = TRUE
          /\ loop' = "waiting"
          /\ monitor' = [monitor EXCEPT !.older = @ + (IF TaskAlive(loop) THEN 1 ELSE 0)]
     ELSE UNCHANGED <<is_running, loop, monitor>>
  /\ UNCHANGED <<now, limiterVars, balancerVars, calls, sessionVars, lifespan, manager>>

\* ServiceRegistry.unregister_service
unregister_service(n) ==
  /\ IF n \in DOMAIN services
     THEN /\ services' = Del(services, n)
          /\ probes' = Detach(probes, n)
          /\ probed' = probed \ {n}
          /\ registered' = Del(registered, n)
     ELSE UNCHANGED <<services, probes, probed, registered>>
  /\ lastCall' = [op |-> "unregister", name |-> n,
                  result |-> UnregisterResult(services, n), known |-> FALSE]
  /\ UNCHANGED <<now, limiterVars, is_running, loop, regPending, monitor,
                 balancerVars, calls, sessionVars, lifespan, manager>>

\* _health_monitoring_loop as it would be if it probed only the services
\* that are marked healthy
health_cycle_start_SkipsUnhealthy ==
  /\ is_running /\ loop = "waiting"
  /\ DOMAIN services # {}
  /\ probes' = [n \in HealthyServices(services) |-> "live"]
  /\ loop' = "probing"
  /\ UNCHANGED <<now, limiterVars, services, is_running, regPending, probed,
                 monitor, registryHist, balancerVars, calls, sessionVars, lifespan, manager>>

\* _health_monitoring_loop: one iteration starts a probe of every service
health_cycle_start ==
  /\ is_running /\ loop = "waiting"
  /\ DOMAIN services # {}
  /\ probes' = [n \in DOMAIN services |-> "live"]
  /\ loop' = "probing"
  /\ UNCHANGED <<now, limiterVars, services, is_running, regPending, probed,
                 monitor, registryHist, balancerVars, calls, sessionVars, lifespan, manager>>

\* _update_service_health as it would be if it dropped a service whose probe
\* failed
ProbeWrite_EvictsUnhealthy(svcs, n, healthy, rt, t) ==
  IF healthy
  THEN [svcs EXCEPT ![n].last_health_check = t, ![n].is_healthy = TRUE,
                    ![n].response_time = rt]
  ELSE Del(svcs, n)

\* _update_service_health as it would be if the flag became visible before
\* the latency was written
ProbeWrite_FlagFirst(svcs, n, healthy, rt, t) ==
  [svcs EXCEPT ![n].last_health_check = t, ![n].is_healthy = healthy]

\* the three assignments of _update_service_health to its ServiceInfo, seen
\* in the registry when that object is still the one stored under the name
ProbeWrite(svcs, n, healthy, rt, t) ==
  [svcs EXCEPT ![n].last_health_check = t,
               ![n].is_healthy = healthy,
               ![n].response_time = IF healthy THEN rt ELSE NoTime]

\* _update_service_health after its await: the result (a probe that timed
\* out or could not connect reads as not healthy) is written to the
\* ServiceInfo object the probe was started with
update_service_health(n, healthy, rt) ==
  /\ loop = "probing" /\ n \in DOMAIN probes
  /\ probes' = Del(probes, n)
  /\ IF probes[n] = "live"
     THEN /\ services' = ProbeWrite(services, n, healthy, rt, now)
          /\ probed' = probed \cup {n}
     ELSE UNCHANGED <<services, probed>>
  /\ lastCall' = [op |-> "probe", name |-> n, result |-> healthy,
                  known |-> probes[n] = "live"]
  /\ UNCHANGED <<now, limiterVars, is_running, loop, regPending, monitor,
                 registered, balancerVars, calls, sessionVars, lifespan, manager>>

\* _health_monitoring_loop: gather has returned, the loop sleeps
health_cycle_end ==
  /\ loop = "probing" /\ DOMAIN probes = {}
  /\ loop' = "waiting"
  /\ UNCHANGED <<now, limiterVars, services, is_running, probes, regPending,
                 probed, monitor, registryHist, balancerVars, calls, sessionVars,
                 lifespan, manager>>

\* stop_health_monitoring while monitoring is running, up to its await of
\* the loop task, called on its own or by cleanup: it clears is_running and
\* cancels the task, which also cancels the probes the task's gather is
\* waiting for
StopBegin(caller) ==
  /\ monitor.stop = "idle"
  /\ is_running
  /\ is_running' = FALSE
  /\ IF TaskAlive(loop)
     THEN loop' = "cancelling" /\ probes' = EmptyMap
     ELSE UNCHANGED <<loop, probes>>
  /\ monitor' = [monitor EXCEPT !.stop = "awaiting", !.caller = caller]
  /\ UNCHANGED <<now, limiterVars, services, regPending, probed, registryHist,
                 balancerVars, calls, sessionVars, lifespan, manager>>

stop_health_monitoring == StopBegin("stop")

\* ServiceRegistry.cleanup up to the await inside stop_health_monitoring
cleanup == StopBegin("cleanup")

\* a cancelled loop task is run again: CancelledError is raised at its await
\* and it leaves its while loop
health_monitoring_loop_cancelled ==
  /\ \/ /\ loop = "cancelling"
        /\ loop' = "cancelled"
        /\ UNCHANGED monitor
     \/ /\ monitor.older > 0
        /\ monitor' = [monitor EXCEPT !.older = @ - 1]
        /\ UNCHANGED loop
  /\ UNCHANGED <<now, limiterVars, services, is_running, probes, regPending,
                 probed, registryHist, balancerVars, calls, sessionVars, lifespan, manager>>

\* the task awaited by stop_health_monitoring has ended
AwaitedTaskDone == loop # "cancelling" /\ monitor.older = 0

\* a stop_health_monitoring call, made on its own or by cleanup, comes to
\* its return: once the task it awaits has ended, or, for a call made while
\* monitoring is not running, at once
StopReturns(caller) ==
  \/ monitor.stop = "awaiting" /\ monitor.caller = caller /\ AwaitedTaskDone
  \/ monitor.stop = "idle" /\ ~is_running

stop_health_monitoring_return ==
  /\ StopReturns("stop")
  /\ monitor' = [monitor EXCEPT !.stop = "idle", !.caller = None]
  /\ UNCHANGED <<now, limiterVars, services, is_running, loop, probes, regPending,
                 probed, registryHist, balancerVars, calls, sessionVars, lifespan, manager>>

\* cleanup after stop_health_monitoring has returned: self.services.clear()
cleanup_return ==
  /\ StopReturns("cleanup")
  /\ monitor' = [monitor EXCEPT !.stop = "idle", !.caller = None]
  /\ services' = EmptyMap
  /\ probes' = [n \in DOMAIN probes |-> "stale"]
  /\ probed' = {}
  /\ registered' = EmptyMap
  /\ UNCHANGED <<now, limiterVars, is_running, loop, regPending, lastCall,
                 balancerVars, calls, sessionVars, lifespan, manager>>

(* --------------------------- WebSocketManager -------------------------- *)
\* WebSocketManager.__init__ (of stats, the entry active_connections)
NewManager ==
  [active_connections |-> {}, connection_info |-> EmptyMap,
   service_connections |-> EmptyMap, message_queues |-> {},
   stats |-> [active_connections |-> 0], pending |-> {}]

\* the calls a send can suspend
ManagerOps ==
  [ws : Sockets, op : {"connect", "send_message"}, service : {None}]
  \cup [ws : Sockets, op : {"subscribe_to_service", "unsubscribe_from_service"},
        service : RegistryNames]

\* self.service_connections[service] of the defaultdict
Subscribers(sc, s) == IF s \in DOMAIN sc THEN sc[s] ELSE {}

\* the services a connection's info lists as subscribed
Subscribed(m, w) ==
  IF w \in DOMAIN m.connection_info
  THEN m.connection_info[w].services_subscribed ELSE {}

\* discard the connection from the subscriber set of each of the services
\* named, then delete the sets that are empty
Discard(sc, w, names) ==
  LET touched == [s \in DOMAIN sc \cup names |->
                    IF s \in names THEN Subscribers(sc, s) \ {w}
                                   ELSE sc[s]]
  IN [s \in {k \in DOMAIN touched : k \notin names \/ touched[k] # {}} |->
        touched[s]]

\* disconnect as it would be if it kept the subscriber sets it has emptied
ManagerDisconnect_KeepsEmptySets(m, w) ==
  [m EXCEPT !.active_connections = @ \ {w},
            !.service_connections =
               [s \in DOMAIN @ \cup Subscribed(m, w) |->
                  Subscribers(@, s) \ (IF s \in Subscribed(m, w) THEN {w} ELSE {})],
            !.connection_info = IF w \in DOMAIN @ THEN Del(@, w) ELSE @,
            !.message_queues = @ \ {w},
            !.stats = [active_connections |-> Cardinality(m.active_connections \ {w})]]

\* WebSocketManager.disconnect: it has no await and runs as one step
ManagerDisconnect(m, w) ==
  [m EXCEPT !.active_connections = @ \ {w},
            !.service_connections = Discard(@, w, Subscribed(m, w)),
            !.connection_info = IF w \in DOMAIN @ THEN Del(@, w) ELSE @,
            !.message_queues = @ \ {w},
            !.stats = [active_connections |-> Cardinality(m.active_connections \ {w})]]

\* f"gateway_session_{len(self.active_connections)}", read after the add
SessionId(m, w) == Cardinality(m.active_connections \cup {w})

\* send_message up to its await of send_text: a call for a connection that
\* is not active returns at once
Suspends(m, w) == w \in m.active_connections

\* no call on w is suspended
Free(m, w) == \A r \in m.pending : r.ws # w

\* the manager's calls leave the rest of the gateway alone
ManagerFrame == UNCHANGED <<now, limiterVars, registryVars, balancerVars, calls,
                            sessionVars, lifespan>>

\* WebSocketManager.connect after accept() up to the send of the welcome:
\* w is a WebSocket object the manager has not seen
connect(w) ==
  /\ w \notin manager.active_connections /\ Free(manager, w)
  /\ Cardinality(manager.pending) < MaxPending
  /\ manager' =
       [manager EXCEPT
          !.active_connections = @ \cup {w},
          !.connection_info =
             Put(@, w, [session_id |-> SessionId(manager, w),
                        services_subscribed |-> {}]),
          !.message_queues = @ \cup {w},
          !.stats = [active_connections |->
                       Cardinality(manager.active_connections \cup {w})],
          !.pending = @ \cup {[ws |-> w, op |-> "connect", service |-> None]}]
  /\ ManagerFrame

\* WebSocketManager.disconnect(websocket)
disconnect(w) ==
  /\ manager' = ManagerDisconnect(manager, w)
  /\ ManagerFrame

\* WebSocketManager.send_message called on its own, up to its await
send_message(w) ==
  /\ Suspends(manager, w)
  /\ Cardinality(manager.pending) < MaxPending
  /\ manager' = [manager EXCEPT !.pending =
                    @ \cup {[ws |-> w, op |-> "send_message", service |-> None]}]
  /\ ManagerFrame

\* subscribe_to_service up to the await of its notification
subscribe_to_service(w, s) ==
  /\ Suspends(manager, w)
  /\ Cardinality(manager.pending) < MaxPending
  /\ manager' =
       [manager EXCEPT
          !.service_connections = Put(@, s, Subscribers(@, s) \cup {w}),
          !.connection_info =
             IF w \in DOMAIN @
             THEN [@ EXCEPT ![w].services_subscribed = @ \cup {s}] ELSE @,
          !.pending = @ \cup {[ws |-> w, op |-> "subscribe_to_service",
                               service |-> s]}]
  /\ ManagerFrame

\* the end of unsubscribe_from_service: an empty subscriber set is deleted
DropIfEmpty(sc, s) ==
  [k \in {x \in DOMAIN sc : x # s \/ sc[x] # {}} |-> sc[k]]

\* unsubscribe_from_service up to the await of its notification, or to its
\* end when the connection is not active and send_message returns at once
unsubscribe_from_service(w, s) ==
  /\ s \in DOMAIN manager.service_connections
  /\ w \in manager.service_connections[s]
  /\ Cardinality(manager.pending) < MaxPending
  /\ LET m1 == [manager EXCEPT
                  !.service_connections = [@ EXCEPT ![s] = @ \ {w}],
                  !.connection_info =
                     IF w \in DOMAIN @
                     THEN [@ EXCEPT ![w].services_subscribed = @ \ {s}] ELSE @]
     IN manager' =
          IF Suspends(manager, w)
          THEN [m1 EXCEPT !.pending = @ \cup {[ws |-> w,
                                                op |-> "unsubscribe_from_service",
                                                service |-> s]}]
          ELSE [m1 EXCEPT !.service_connections = DropIfEmpty(@, s)]
  /\ ManagerFrame

\* a suspended send_text returns or raises; send_message disconnects the
\* connection when it raised, and the call that made the send goes on to
\* its end
send_text_done(r, raises) ==
  /\ r \in manager.pending
  /\ LET m1 == IF raises THEN ManagerDisconnect(manager, r.ws) ELSE manager
         m2 == IF r.op = "unsubscribe_from_service"
               THEN [m1 EXCEPT !.service_connections = DropIfEmpty(@, r.service)]
               ELSE m1
     IN manager' = [m2 EXCEPT !.pending = @ \ {r}]
  /\ ManagerFrame

\* the connections of a set, disconnected one after the other
RECURSIVE DisconnectAll(_, _)
DisconnectAll(m, ws) ==
  IF ws = {} THEN m
  ELSE LET w == CHOOSE x \in ws : TRUE
       IN DisconnectAll(ManagerDisconnect(m, w), ws \ {w})

\* cleanup_inactive_connections: the connections whose last activity is
\* older than the timeout are disconnected
cleanup_inactive_connections(inactive) ==
  /\ inactive # {} /\ inactive \subseteq DOMAIN manager.connection_info
  /\ manager' = DisconnectAll(manager, inactive)
  /\ ManagerFrame

(* ------------------------------- lifespan ------------------------------ *)
\* lifespan after its start-up part, at the yield
Serving == [pc |-> "serving", http_client |-> "open"]

\* the finally block of lifespan: http_client.aclose(), db_manager.close()
\* and the log line "API Gateway shutdown completed"; it makes no call to
\* the registry
lifespan_shutdown ==
  /\ lifespan.pc = "serving"
  /\ lifespan' = [pc |-> "stopped", http_client |-> "closed"]
  /\ UNCHANGED <<now, limiterVars, registryVars, balancerVars, calls, sessionVars,
                 manager>>

(* ----------------------------- load balancer --------------------------- *)
\* ServiceInstance(url, weight)
NewInstance(url, weight) ==
  [url |-> url, weight |-> weight, active_connections |-> 0,
   response_time |-> 0, last_used |-> 0, is_healthy |-> TRUE]

\* self.service_instances.get(service_name, [])
Instances(si, s) == IF s \in DOMAIN si THEN si[s] ELSE <<>>

\* [inst for inst in instances if inst.is_healthy], as positions in the list
HealthyIdx(insts) ==
  SelectSeq([i \in 1..Len(insts) |-> i], LAMBDA i : insts[i].is_healthy)

Counter(counters, s) == IF s \in DOMAIN counters THEN counters[s] ELSE 0

\* position of the first smallest entry of a list of numbers: Python's min
FirstMin(keys) ==
  CHOOSE p \in 1..Len(keys) :
    /\ \A q \in 1..Len(keys) : keys[p] <= keys[q]
    /\ \A q \in 1..(p - 1) : keys[q] > keys[p]

\* _round_robin_selection storing the counter back without advancing it
RoundRobin_NoAdvance(s, cand, counters) ==
  LET c0 == Counter(counters, s)
  IN [idx |-> cand[(c0 % Len(cand)) + 1],
      counters |-> Put(counters, s, c0 % Len(cand))]

\* counter % len(instances) as it would be without the modulo
RotationIndex_NoModulo(counter, n) == counter

\* counter % len(instances): the index the rotating strategies use
RotationIndex(counter, n) == counter % n

\* _round_robin_selection over the candidate list cand; idx 0 stands for the
\* IndexError of an index beyond the list, raised before the counter is stored
RoundRobin(s, cand, counters) ==
  LET c0 == Counter(counters, s)
      k == RotationIndex(c0, Len(cand))
  IN IF k < Len(cand)
     THEN [idx |-> cand[k + 1],
           counters |-> Put(counters, s, (c0 + 1) % Len(cand))]
     ELSE [idx |-> 0, counters |-> Put(counters, s, c0)]

\* _least_connections_selection choosing the last of the least loaded
LeastConnections_Last(insts, h) ==
  LET p == CHOOSE p \in 1..Len(h) :
             /\ \A q \in 1..Len(h) :
                  insts[h[p]].active_connections <= insts[h[q]].active_connections
             /\ \A q \in (p + 1)..Len(h) :
                  insts[h[q]].active_connections > insts[h[p]].active_connections
  IN h[p]

\* _least_connections_selection
LeastConnections(insts, h) ==
  h[FirstMin([p \in 1..Len(h) |-> insts[h[p]].active_connections])]

\* the list with each instance repeated weight times
RECURSIVE Expand(_, _)
Expand(insts, h) ==
  IF h = <<>> THEN <<>>
  ELSE [k \in 1..insts[Head(h)].weight |-> Head(h)] \o Expand(insts, Tail(h))

\* _weighted_round_robin_selection ignoring the weights
WeightedRoundRobin_Unweighted(s, insts, h, counters) == RoundRobin(s, h, counters)

\* _weighted_round_robin_selection
WeightedRoundRobin(s, insts, h, counters) ==
  LET weighted == Expand(insts, h)
  IN IF weighted = <<>> THEN [idx |-> h[1], counters |-> counters]
     ELSE RoundRobin(s, weighted, counters)

\* _least_response_time_selection
LeastResponseTime(insts, h) ==
  LET known == SelectSeq(h, LAMBDA i : insts[i].response_time > 0)
  IN IF known # <<>>
     THEN known[FirstMin([p \in 1..Len(known) |-> insts[known[p]].response_time])]
     ELSE h[1]

\* _select_instance: rnd is the pick of random.choice
SelectInstance(strat, s, insts, h, counters, rnd) ==
  IF strat = "round_robin" THEN RoundRobin(s, h, counters)
  ELSE IF strat = "random" THEN [idx |-> h[rnd], counters |-> counters]
  ELSE IF strat = "least_connections"
       THEN [idx |-> LeastConnections(insts, h), counters |-> counters]
  ELSE IF strat = "weighted_round_robin"
       THEN WeightedRoundRobin(s, insts, h, counters)
  ELSE IF strat = "least_response_time"
       THEN [idx |-> LeastResponseTime(insts, h), counters |-> counters]
  ELSE RoundRobin(s, h, counters)

\* the instance list get_service_url works on: the stored one, or a default
\* instance made from the registry's address when none is stored
Candidates(si, svcs, s) ==
  IF Instances(si, s) # <<>> THEN Instances(si, s)
  ELSE IF RegistryUrl(svcs, s) # Nothing
       THEN <<NewInstance(RegistryUrl(svcs, s)[1], 1)>>
       ELSE <<>>

\* get_service_url without the filter on is_healthy
GetServiceUrl_NoHealthFilter(s, strat, si, counters, svcs, t, rnd) ==
  LET insts == Candidates(si, svcs, s)
      h == [i \in 1..Len(insts) |-> i]
  IN IF insts = <<>>
     THEN [url |-> Nothing, idx |-> 0, service_instances |-> si,
           round_robin_counters |-> counters]
     ELSE LET sel == SelectInstance(strat, s, insts, h, counters, rnd)
              si1 == Put(si, s, insts)
          IN [url |-> Some(insts[sel.idx].url), idx |-> sel.idx,
              service_instances |->
                [si1 EXCEPT ![s][sel.idx].active_connections = @ + 1,
                            ![s][sel.idx].last_used = t],
              round_robin_counters |-> sel.counters]

\* LoadBalancer.get_service_url: the value returned and the state it leaves;
\* an exception raised by the selection is caught and None returned
GetServiceUrl(s, strat, si, counters, svcs, t, rnd) ==
  LET insts == Candidates(si, svcs, s)
      h == HealthyIdx(insts)
  IN IF insts = <<>>
     THEN [url |-> Nothing, idx |-> 0, service_instances |-> si,
           round_robin_counters |-> counters]
     ELSE IF h = <<>>
     THEN [url |-> Nothing, idx |-> 0, service_instances |-> Put(si, s, insts),
           round_robin_counters |-> counters]
     ELSE LET sel == SelectInstance(strat, s, insts, h, counters, rnd)
              si1 == Put(si, s, insts)
          IN IF sel.idx = 0
             THEN [url |-> Nothing, idx |-> 0, service_instances |-> si1,
                   round_robin_counters |-> sel.counters]
             ELSE [url |-> Some(insts[sel.idx].url), idx |-> sel.idx,
                   service_instances |->
                     [si1 EXCEPT ![s][sel.idx].active_connections = @ + 1,
                                 ![s][sel.idx].last_used = t],
                   round_robin_counters |-> sel.counters]

RECURSIVE SumConnections(_)
SumConnections(insts) ==
  IF insts = <<>> THEN 0
  ELSE Head(insts).active_connections + SumConnections(Tail(insts))

RECURSIVE TotalConnections(_, _)
TotalConnections(si, names) ==
  IF names = {} THEN 0
  ELSE LET n == CHOOSE n \in names : TRUE
       IN SumConnections(si[n]) + TotalConnections(si, names \ {n})

\* the picks random.choice can make for service s
RandomPicks(s) ==
  IF strategy = "random"
  THEN 1..Len(HealthyIdx(Candidates(service_instances, services, s)))
  ELSE {1}

Rotating == strategy \in RotatingStrategies

\* the state change of one get_service_url call, with its history bookkeeping
ResolveEffect(s, rnd) ==
  LET r == GetServiceUrl(s, strategy, service_instances, round_robin_counters,
                         services, now, rnd)
      fresh == Instances(service_instances, s) = <<>>
  IN /\ TotalConnections(service_instances, DOMAIN service_instances) < MaxResolves
     /\ rnd \in RandomPicks(s) \cup {1}
     /\ service_instances' = r.service_instances
     /\ round_robin_counters' = r.round_robin_counters
     /\ lastResolve' = [service |-> s, url |-> r.url, idx |-> r.idx,
                        counter |-> IF Rotating THEN Counter(round_robin_counters, s)
                                    ELSE 0]
     /\ lastReport' = lastReport
     /\ rrLog' = IF r.url # Nothing /\ Rotating
                 THEN [rrLog EXCEPT ![s] = Append(IF fresh THEN <<>> ELSE @, r.idx)]
                 ELSE IF fresh THEN [rrLog EXCEPT ![s] = <<>>] ELSE rrLog

\* a direct call of LoadBalancer.get_service_url(service_name)
get_service_url(s, rnd) ==
  /\ ResolveEffect(s, rnd)
  /\ UNCHANGED <<now, limiterVars, registryVars, strategy, calls, sessionVars, lifespan, manager>>

\* LoadBalancer.add_service_instance
add_service_instance(s, url, weight) ==
  /\ Len(Instances(service_instances, s)) < MaxInstances
  /\ service_instances' = Put(service_instances, s,
       Append(Instances(service_instances, s), NewInstance(url, weight)))
  /\ rrLog' = [rrLog EXCEPT ![s] = <<>>]
  /\ UNCHANGED <<now, limiterVars, registryVars, strategy,
                 round_robin_counters, lastResolve, lastReport, calls, sessionVars,
                 lifespan, manager>>

\* LoadBalancer.remove_service_instance
remove_service_instance(s, url) ==
  /\ IF s \in DOMAIN service_instances
     THEN LET rest == SelectSeq(service_instances[s], LAMBDA inst : inst.url # url)
          IN service_instances' = IF rest = <<>> THEN Del(service_instances, s)
                                  ELSE Put(service_instances, s, rest)
     ELSE UNCHANGED service_instances
  /\ rrLog' = [rrLog EXCEPT ![s] = <<>>]
  /\ UNCHANGED <<now, limiterVars, registryVars, strategy,
                 round_robin_counters, lastResolve, lastReport, calls, sessionVars,
                 lifespan, manager>>

\* position of the first instance of the list with this address, 0 if none
FirstWithUrl(insts, url) ==
  IF \E i \in 1..Len(insts) : insts[i].url = url
  THEN CHOOSE i \in 1..Len(insts) :
         insts[i].url = url /\ \A j \in 1..(i - 1) : insts[j].url # url
  ELSE 0

NoReport == [op |-> None, result |-> FALSE]

\* what update_instance_health and update_instance_response_time return:
\* True from inside the loop when an instance of the service has the address
UpdateInstanceResult(si, s, url) == FirstWithUrl(Instances(si, s), url) # 0

\* update_instance_health as it would be if it added an instance it did not find
UpdateInstanceHealth_Upsert(si, s, url, healthy) ==
  LET i == FirstWithUrl(Instances(si, s), url)
  IN IF i = 0
     THEN Put(si, s, Append(Instances(si, s),
                            [NewInstance(url, 1) EXCEPT !.is_healthy = healthy]))
     ELSE [si EXCEPT ![s][i].is_healthy = healthy]

\* the instance lists update_instance_health leaves
UpdateInstanceHealth(si, s, url, healthy) ==
  LET i == FirstWithUrl(Instances(si, s), url)
  IN IF i = 0 THEN si ELSE [si EXCEPT ![s][i].is_healthy = healthy]

\* the instance lists update_instance_response_time leaves
UpdateInstanceResponseTime(si, s, url, rt) ==
  LET i == FirstWithUrl(Instances(si, s), url)
  IN IF i = 0 THEN si ELSE [si EXCEPT ![s][i].response_time = rt]

\* LoadBalancer.update_instance_health
update_instance_health(s, url, healthy) ==
  /\ service_instances' = UpdateInstanceHealth(service_instances, s, url, healthy)
  /\ lastReport' = [op |-> "health",
                    result |-> UpdateInstanceResult(service_instances, s, url)]
  /\ rrLog' = [rrLog EXCEPT ![s] = <<>>]
  /\ UNCHANGED <<now, limiterVars, registryVars, strategy,
                 round_robin_counters, lastResolve, calls, sessionVars, lifespan, manager>>

\* LoadBalancer.update_instance_response_time
update_instance_response_time(s, url, rt) ==
  /\ service_instances' = UpdateInstanceResponseTime(service_instances, s, url, rt)
  /\ lastReport' = [op |-> "response_time",
                    result |-> UpdateInstanceResult(service_instances, s, url)]
  /\ UNCHANGED <<now, limiterVars, registryVars, strategy,
                 round_robin_counters, lastResolve, rrLog, calls, sessionVars, lifespan, manager>>

\* LoadBalancer.set_strategy
set_strategy(st) ==
  /\ st # strategy
  /\ strategy' = st
  /\ rrLog' = [s \in ServiceNames |-> <<>>]
  /\ UNCHANGED <<now, limiterVars, registryVars, service_instances,
                 round_robin_counters, lastResolve, lastReport, calls, sessionVars,
                 lifespan, manager>>

(* ---------------------------- proxy handlers --------------------------- *)
CallIds == 1..MaxCalls
IdleCall == [pc |-> "idle", kind |-> None, service |-> None, idx |-> 0,
             status |-> None, event |-> None, sentAt |-> NoTime]

\* what ends the try block of proxy_request: the exception raised in it, or
\* None when the backend's response came back
RaisedInTry(event) ==
  IF event = "unavailable" THEN "HTTPException"
  ELSE IF event = "timeout" THEN "TimeoutException"
  ELSE IF event = "connect_error" THEN "ConnectError"
  ELSE IF event = "error" THEN "RuntimeError"
  ELSE None

\* proxy_request with one except clause for every failure
ProxyRequestStatus_Generic(event) ==
  IF RaisedInTry(event) = None THEN "relayed" ELSE "500"

\* what proxy_request answers.  Its HTTPException(503) for an unavailable
\* service is raised inside the try block; it is neither a TimeoutException
\* nor a ConnectError, so the `except Exception` clause catches it and raises
\* HTTPException(500) instead.
ProxyRequestStatus(event) ==
  LET exc == RaisedInTry(event)
  IN IF exc = None THEN "relayed"
     ELSE IF exc = "TimeoutException" THEN "504"
     ELSE IF exc = "ConnectError" THEN "503"
     ELSE "500"

ProxyEvents == {"response", "timeout", "connect_error", "error"}

\* http_client waits this long for the backend: httpx.Timeout(30.0)
GatewayTimeout == 30

\* the backend answers or fails before the timeout has run out; once it has
\* run out the request raises TimeoutException
EventInTime(event, sentAt, t) ==
  IF event = "timeout" THEN t - sentAt >= GatewayTimeout
  ELSE t - sentAt < GatewayTimeout

\* a handler asks the balancer for a target; the call is then in flight on
\* the chosen instance, or over when there is none
StartCall(i, kind, s, rnd, unavailableStatus) ==
  /\ calls[i].pc = "idle"
  /\ ResolveEffect(s, rnd)
  /\ LET r == GetServiceUrl(s, strategy, service_instances,
                            round_robin_counters, services, now, rnd)
     IN calls' = [calls EXCEPT ![i] =
          IF r.url = Nothing
          THEN [pc |-> "done", kind |-> kind, service |-> s, idx |-> 0,
                status |-> unavailableStatus, event |-> "unavailable",
                sentAt |-> NoTime]
          ELSE [pc |-> "sent", kind |-> kind, service |-> s, idx |-> r.idx,
                status |-> None, event |-> None, sentAt |-> now]]
  /\ UNCHANGED <<now, limiterVars, registryVars, strategy, sessionVars, lifespan, manager>>

\* the call or session is over, nothing is pending on the backend any more;
\* no handler touches the balancer again
EndCall(i, kind, event, status) ==
  /\ calls[i].pc = "sent" /\ calls[i].kind = kind
  /\ calls' = [calls EXCEPT ![i].pc = "done", ![i].status = status,
                            ![i].event = event, ![i].sentAt = NoTime]
  /\ UNCHANGED <<now, limiterVars, registryVars, balancerVars, sessionVars, lifespan, manager>>

\* proxy_request up to its await of the backend request
proxy_request(i, s, rnd) ==
  StartCall(i, "unary", s, rnd, ProxyRequestStatus("unavailable"))

\* proxy_request from the backend's answer, timeout or failure on
proxy_request_done(i, event) ==
  /\ EventInTime(event, calls[i].sentAt, now)
  /\ EndCall(i, "unary", event, ProxyRequestStatus(event))

\* websocket_proxy up to the forwarding session
websocket_proxy(i, s, rnd) == StartCall(i, "duplex", s, rnd, "close_1011")

\* websocket_proxy: the session has ended
websocket_proxy_done(i) == EndCall(i, "duplex", "closed", "closed")

\* universal_websocket: one message up to its await of the backend POST
universal_websocket_message(i, s, rnd) ==
  StartCall(i, "mux", s, rnd, "error_reply")

\* universal_websocket: the reply to the message is sent
universal_websocket_reply(i, ok) ==
  EndCall(i, "mux", IF ok THEN "response" ELSE "error",
          IF ok THEN "reply" ELSE "error_reply")

(* ---------------------------- duplex session --------------------------- *)
\* a forwarding loop waits in receive_text, holds a frame it is about to
\* send, or has ended
IdleLoop == [pc |-> "receiving", held |-> 0]

\* a direction of the session: the frames its source has sent (numbered in
\* the order sent), those still on their way to the gateway, those handed to
\* the destination, whether the destination has stopped reading, and the loop
IdleLeg == [sent |-> 0, queue |-> <<>>, delivered |-> <<>>, stalled |-> FALSE,
            loop |-> IdleLoop]

\* up is forward_to_target (client to backend), down is forward_to_client
IdleDuplex == [pc |-> "idle", client |-> "open", backend |-> "none",
               up |-> IdleLeg, down |-> IdleLeg]

Directions == {"up", "down"}
\* the side a direction reads from and the side it writes to
Source(d, dir) == IF dir = "up" THEN d.client ELSE d.backend
Destination(d, dir) == IF dir = "up" THEN d.backend ELSE d.client

\* send_text as it would be if it handed the frame over twice
Deliver_Twice(delivered, frame) == Append(Append(delivered, frame), frame)

\* await send_text(data): the frame reaches the destination
Deliver(delivered, frame) == Append(delivered, frame)

\* websocket_proxy from the resolved target on: the connect to the backend
\* succeeds, and the client is accepted and the two loops are started, or it
\* raises, and the client is closed with code 1011.  (httpx itself has no
\* websocket_connect on AsyncClient: with the stock library the call at
\* main.py:309 always raises.)
websocket_proxy_open(s, rnd, connected) ==
  /\ duplex.pc = "idle"
  /\ ResolveEffect(s, rnd)
  /\ LET url == GetServiceUrl(s, strategy, service_instances,
                              round_robin_counters, services, now, rnd).url
     IN duplex' = IF url = Nothing \/ ~connected
                  THEN [duplex EXCEPT !.pc = "rejected"]
                  ELSE [duplex EXCEPT !.pc = "open", !.backend = "open"]
  /\ UNCHANGED <<now, limiterVars, registryVars, strategy, calls, mux, lifespan, manager>>

\* the source of a direction sends its next frame
duplex_send(dir) ==
  /\ duplex.pc = "open" /\ Source(duplex, dir) = "open"
  /\ duplex[dir].sent < MaxFrames
  /\ duplex' = [duplex EXCEPT ![dir].sent = @ + 1,
                              ![dir].queue = Append(@, duplex[dir].sent + 1)]
  /\ UNCHANGED <<now, limiterVars, registryVars, balancerVars, calls, mux, lifespan, manager>>

\* the client or the backend closes its side
duplex_close(side) ==
  /\ duplex.pc = "open" /\ duplex[side] = "open"
  /\ duplex' = [duplex EXCEPT ![side] = "closed"]
  /\ UNCHANGED <<now, limiterVars, registryVars, balancerVars, calls, mux, lifespan, manager>>

\* the destination of a direction stops or resumes reading
duplex_stall(dir, stalled) ==
  /\ duplex.pc = "open" /\ Destination(duplex, dir) = "open"
  /\ duplex[dir].stalled # stalled
  /\ duplex' = [duplex EXCEPT ![dir].stalled = stalled]
  /\ UNCHANGED <<now, limiterVars, registryVars, balancerVars, calls, mux, lifespan, manager>>

\* a forwarding loop's receive_text returns the next frame of its source, or
\* raises because the source has closed, which ends the loop
forward_receive(dir) ==
  /\ duplex.pc = "open" /\ duplex[dir].loop.pc = "receiving"
  /\ IF duplex[dir].queue # <<>>
     THEN duplex' = [duplex EXCEPT
            ![dir].loop = [pc |-> "sending", held |-> Head(duplex[dir].queue)],
            ![dir].queue = Tail(@)]
     ELSE /\ Source(duplex, dir) = "closed"
          /\ duplex' = [duplex EXCEPT ![dir].loop = [pc |-> "ended", held |-> 0]]
  /\ UNCHANGED <<now, limiterVars, registryVars, balancerVars, calls, mux, lifespan, manager>>

\* a forwarding loop's send_text hands the held frame to its destination and
\* the loop receives again; on a destination that has closed the send raises
\* and the loop ends, or (a client that has gone, on a server that drops such
\* a send) the frame is lost and the loop goes on
forward_send(dir, raises) ==
  /\ duplex.pc = "open" /\ duplex[dir].loop.pc = "sending"
  /\ IF Destination(duplex, dir) = "open"
     THEN /\ ~duplex[dir].stalled
          /\ duplex' = [duplex EXCEPT
               ![dir].delivered = Deliver(@, duplex[dir].loop.held),
               ![dir].loop = IdleLoop]
     ELSE /\ raises \/ dir = "down"
          /\ duplex' = [duplex EXCEPT
               ![dir].loop = IF raises THEN [pc |-> "ended", held |-> 0]
                             ELSE IdleLoop]
  /\ UNCHANGED <<now, limiterVars, registryVars, balancerVars, calls, mux, lifespan, manager>>

forward_to_target_receive == forward_receive("up")
forward_to_target_send(raises) == forward_send("up", raises)
forward_to_client_receive == forward_receive("down")
forward_to_client_send(raises) == forward_send("down", raises)

\* asyncio.gather(forward_to_target(), forward_to_client(),
\* return_exceptions=True) returns once both loops have ended; leaving the two
\* `async with` blocks and the handler closes the backend and the client
\* connection
websocket_proxy_return ==
  /\ duplex.pc = "open"
  /\ duplex.up.loop.pc = "ended" /\ duplex.down.loop.pc = "ended"
  /\ duplex' = [duplex EXCEPT !.pc = "returned"]
  /\ UNCHANGED <<now, limiterVars, registryVars, balancerVars, calls, mux, lifespan, manager>>

(* ------------------------ multiplexed connection ----------------------- *)
\* what a client message holds: text that is not a JSON object, an object
\* without a service field, or an object naming a service
MuxBodies == {"malformed", "non_object", "no_service"} \cup ServiceNames
\* text that json.loads rejects, and JSON values that have no get method
NotObjects == {"malformed", "non_object"}

IdleMux == [pc |-> "idle", client |-> "open", active |-> FALSE, inbox |-> <<>>,
            cur |-> 0, sent |-> 0, handled |-> <<>>, replies |-> <<>>]

\* receive_text as it would be if it handed over the newest waiting message
NextMessage_Latest(inbox) == inbox[Len(inbox)]

\* data = await websocket.receive_text(): the oldest message not yet received
NextMessage(inbox) == Head(inbox)

\* the remaining messages once m is taken
Remaining(inbox, m) == SelectSeq(inbox, LAMBDA x : x.id # m.id)

\* the loop body as it would be if a missing service field ended the session
HandleMessage_ClosesOnError(body, url) ==
  IF body \in NotObjects \cup {"no_service"} THEN "disconnect"
  ELSE IF url = Nothing THEN "error_reply"
  ELSE "post"

\* the loop body as it would be if a frame that is no JSON object were
\* answered inline like a missing service field
HandleMessage_RepliesToAll(body, url) ==
  IF body \in NotObjects \cup {"no_service"} THEN "error_reply"
  ELSE IF url = Nothing THEN "error_reply"
  ELSE "post"

\* the loop body of universal_websocket up to the backend POST: json.loads
\* or message.get raises on text that is not a JSON object, which ends the
\* session; a missing service field and an unavailable service are answered
\* inline and the loop goes on
HandleMessage(body, url) ==
  IF body \in NotObjects THEN "disconnect"
  ELSE IF body = "no_service" THEN "error_reply"
  ELSE IF url = Nothing THEN "error_reply"
  ELSE "post"

\* WebSocketManager.send_message: sends only to a connection it holds as
\* active; a send that raises makes it drop the connection.  Whether a send
\* to a client that has gone raises depends on the server, so `raises` is
\* either.
SendMessage(m, to, type, raises) ==
  IF ~m.active THEN m
  ELSE IF m.client = "open"
  THEN [m EXCEPT !.replies = Append(@, [to |-> to, type |-> type])]
  ELSE IF raises THEN [m EXCEPT !.active = FALSE]
  ELSE m

\* WebSocketManager.disconnect, after which universal_websocket returns
Disconnect(m) == [m EXCEPT !.active = FALSE, !.pc = "closed", !.cur = 0]

\* universal_websocket up to its loop: WebSocketManager.connect accepts the
\* connection, holds it as active and greets the client
universal_websocket_connect ==
  /\ mux.pc = "idle"
  /\ mux' = [mux EXCEPT !.pc = "receiving", !.active = TRUE,
                        !.replies = <<[to |-> 0, type |-> "connection_established"]>>]
  /\ UNCHANGED <<now, limiterVars, registryVars, balancerVars, calls, duplex, lifespan, manager>>

\* the client sends its next message
mux_client_send(body) ==
  /\ mux.pc \in {"receiving", "posting"} /\ mux.client = "open"
  /\ mux.sent < MaxMessages
  /\ mux' = [mux EXCEPT !.sent = @ + 1,
                        !.inbox = Append(@, [id |-> mux.sent + 1, body |-> body])]
  /\ UNCHANGED <<now, limiterVars, registryVars, balancerVars, calls, duplex, lifespan, manager>>

\* the client closes its connection
mux_client_close ==
  /\ mux.pc \in {"receiving", "posting"} /\ mux.client = "open"
  /\ mux' = [mux EXCEPT !.client = "closed"]
  /\ UNCHANGED <<now, limiterVars, registryVars, balancerVars, calls, duplex, lifespan, manager>>

\* universal_websocket: receive_text returns a message, which is handled up
\* to the backend POST, or raises WebSocketDisconnect
universal_websocket_receive(rnd, raises) ==
  /\ mux.pc = "receiving"
  /\ IF mux.inbox = <<>>
     THEN /\ mux.client = "closed"
          /\ mux' = Disconnect(mux)
          /\ UNCHANGED balancerVars
     ELSE LET m == NextMessage(mux.inbox)
              named == m.body \in ServiceNames
              url == IF named
                     THEN GetServiceUrl(m.body, strategy, service_instances,
                            round_robin_counters, services, now, rnd).url
                     ELSE Nothing
              out == HandleMessage(m.body, url)
              taken == [mux EXCEPT !.inbox = Remaining(@, m),
                                   !.handled = Append(@, [id |-> m.id, body |-> m.body,
                                                          resolved |-> url # Nothing])]
          IN /\ IF named THEN ResolveEffect(m.body, rnd) /\ UNCHANGED strategy
                ELSE UNCHANGED balancerVars
             /\ mux' = IF out = "disconnect" THEN Disconnect(taken)
                       ELSE IF out = "error_reply"
                       THEN SendMessage(taken, m.id, "error", raises)
                       ELSE [taken EXCEPT !.pc = "posting", !.cur = m.id]
  /\ UNCHANGED <<now, limiterVars, registryVars, calls, duplex, lifespan, manager>>

\* universal_websocket: the backend POST has answered 200, answered another
\* status, or raised; the result or an error is sent as the reply
universal_websocket_post_done(outcome, raises) ==
  /\ mux.pc = "posting"
  /\ mux' = SendMessage([mux EXCEPT !.pc = "receiving", !.cur = 0], mux.cur,
                        IF outcome = "200" THEN "result" ELSE "error", raises)
  /\ UNCHANGED <<now, limiterVars, registryVars, balancerVars, calls, duplex, lifespan, manager>>

PostOutcomes == {"200", "other", "raises"}

(* ---------------------------- specification ---------------------------- *)
Init ==
  /\ now = 0
  /\ config \in [requests_per_minute : 1..MaxRpm,
                 burst_limit : {DefaultBurstLimit},
                 window_size : {DefaultWindowSize}]
  /\ requests = EmptyMap
  /\ requestKeys = <<>>
  /\ blocked_ips = EmptyMap
  /\ lastAllow = [c \in AllClients |-> None]
  /\ blockStart = [c \in AllClients |-> NoTime]
  /\ callCount = [c \in AllClients |-> 0]
  /\ firstCallAt = [c \in AllClients |-> NoTime]
  /\ pristine = TRUE
  /\ allowedLog = [c \in AllClients |-> <<>>]
  /\ mw = [client |-> None, limiter |-> FALSE, authOk |-> FALSE,
           status |-> 0, forwarded |-> FALSE]
  /\ services = EmptyMap
  /\ is_running = FALSE
  /\ loop = "none"
  /\ probes = EmptyMap
  /\ regPending = EmptyMap
  /\ probed = {}
  /\ monitor = IdleMonitor
  /\ lastCall = [op |-> None, name |-> None, result |-> FALSE, known |-> FALSE]
  /\ registered = EmptyMap
  /\ strategy = "round_robin"
  /\ service_instances = EmptyMap
  /\ round_robin_counters = EmptyMap
  /\ lastResolve = [service |-> None, url |-> Nothing, idx |-> 0, counter |-> 0]
  /\ lastReport = NoReport
  /\ rrLog = [s \in ServiceNames |-> <<>>]
  /\ calls = [i \in CallIds |-> IdleCall]
  /\ duplex = IdleDuplex
  /\ mux = IdleMux
  /\ lifespan = Serving
  /\ manager = NewManager

\* the limiter driven through its own interface
LimiterNext ==
  \/ Tick
  \/ \E c \in Clients : is_allowed(c)
  \/ \E c \in Clients : unblock_ip(c)
  \/ \E rpm \in 1..MaxRpm, burst \in {Nothing} \cup {Some(b) : b \in 1..MaxBurst},
          window \in {Nothing} :
       update_config(rpm, burst, window)

\* the limiter tracking several clients, with its periodic cleanup
CleanupNext ==
  \/ Tick
  \/ \E c \in CleanupClients : is_allowed(c)
  \/ cleanup_expired_entries

\* the limiter driven by the gateway's HTTP middleware
MiddlewareNext ==
  \/ Tick
  \/ \E c \in Clients, p \in BOOLEAN, a \in BOOLEAN, h \in BOOLEAN :
       auth_and_rate_limit_middleware(c, p, a, h)

RegistryNext ==
  \/ \E n \in ServiceNames, raw \in RawUrls : register_service_start(n, raw)
  \/ \E n \in ServiceNames, resp \in ProbeResponses :
       register_service_done(n, CheckServiceHealth(resp))
  \/ \E n \in ServiceNames : unregister_service(n)

MonitorNext ==
  \/ health_cycle_start
  \/ \E n \in ServiceNames, resp \in ProbeResponses, rt \in ResponseTimes :
       update_service_health(n, CheckServiceHealth(resp), rt)
  \/ health_cycle_end

\* the registry with two names
RegistryNamesNext ==
  \/ \E n \in RegistryNames, raw \in RawUrls : register_service_start(n, raw)
  \/ \E n \in RegistryNames, resp \in ProbeResponses :
       register_service_done(n, CheckServiceHealth(resp))
  \/ \E n \in RegistryNames : unregister_service(n)
  \/ health_cycle_start
  \/ \E n \in RegistryNames, resp \in ProbeResponses, rt \in ResponseTimes :
       update_service_health(n, CheckServiceHealth(resp), rt)
  \/ health_cycle_end

\* monitoring is stopped, or the registry cleaned up, while it is in use
StopNext ==
  \/ RegistryNext
  \/ MonitorNext
  \/ stop_health_monitoring
  \/ cleanup
  \/ health_monitoring_loop_cancelled
  \/ stop_health_monitoring_return
  \/ cleanup_return

\* the WebSocketManager called for several connections
ManagerNext ==
  \/ \E w \in Sockets : connect(w)
  \/ \E w \in Sockets : disconnect(w)
  \/ \E w \in Sockets : send_message(w)
  \/ \E w \in Sockets, s \in RegistryNames : subscribe_to_service(w, s)
  \/ \E w \in Sockets, s \in RegistryNames : unsubscribe_from_service(w, s)
  \/ \E r \in ManagerOps, raises \in BOOLEAN : send_text_done(r, raises)
  \/ \E inactive \in SUBSET Sockets : cleanup_inactive_connections(inactive)

\* the gateway is shut down while its registry is in use
ShutdownNext ==
  \/ RegistryNext
  \/ MonitorNext
  \/ lifespan_shutdown

\* the balancer driven through its own interface, instances of default weight
SelectionNext ==
  \/ \E s \in ServiceNames, rnd \in 1..MaxInstances : get_service_url(s, rnd)
  \/ \E s \in ServiceNames, url \in Urls : add_service_instance(s, url, 1)
  \/ \E s \in ServiceNames, url \in Urls : remove_service_instance(s, url)
  \/ \E s \in ServiceNames, url \in Urls, healthy \in BOOLEAN :
       update_instance_health(s, url, healthy)
  \/ \E s \in ServiceNames, url \in Urls, rt \in ResponseTimes :
       update_instance_response_time(s, url, rt)
  \/ \E st \in Strategies : set_strategy(st)

\* the balancer under its two rotating strategies, instances of any weight
RotationNext ==
  \/ \E s \in ServiceNames : get_service_url(s, 1)
  \/ \E s \in ServiceNames, url \in Urls, w \in 1..MaxWeight :
       add_service_instance(s, url, w)
  \/ \E s \in ServiceNames, url \in Urls : remove_service_instance(s, url)
  \/ \E s \in ServiceNames, url \in Urls, healthy \in BOOLEAN :
       update_instance_health(s, url, healthy)
  \/ \E st \in RotatingStrategies : set_strategy(st)

\* the handlers of the gateway that ask the balancer for a target
ProxyNext ==
  \/ \E i \in CallIds, s \in ServiceNames, rnd \in 1..MaxInstances :
       proxy_request(i, s, rnd)
  \/ \E i \in CallIds, e \in ProxyEvents : proxy_request_done(i, e)
  \/ \E i \in CallIds, s \in ServiceNames, rnd \in 1..MaxInstances :
       websocket_proxy(i, s, rnd)
  \/ \E i \in CallIds : websocket_proxy_done(i)
  \/ \E i \in CallIds, s \in ServiceNames, rnd \in 1..MaxInstances :
       universal_websocket_message(i, s, rnd)
  \/ \E i \in CallIds, ok \in BOOLEAN : universal_websocket_reply(i, ok)

\* unary proxy calls while time passes
UnaryNext ==
  \/ Tick
  \/ \E i \in CallIds, s \in ServiceNames : proxy_request(i, s, 1)
  \/ \E i \in CallIds, e \in ProxyEvents : proxy_request_done(i, e)

\* one multiplexed connection
MuxNext ==
  \/ universal_websocket_connect
  \/ \E body \in MuxBodies : mux_client_send(body)
  \/ mux_client_close
  \/ \E raises \in BOOLEAN : universal_websocket_receive(1, raises)
  \/ \E o \in PostOutcomes, raises \in BOOLEAN :
       universal_websocket_post_done(o, raises)

\* one duplex session
DuplexNext ==
  \/ \E s \in ServiceNames, connected \in BOOLEAN :
       websocket_proxy_open(s, 1, connected)
  \/ \E dir \in Directions : duplex_send(dir)
  \/ \E side \in {"client", "backend"} : duplex_close(side)
  \/ \E dir \in Directions, stalled \in BOOLEAN : duplex_stall(dir, stalled)
  \/ forward_to_target_receive
  \/ \E raises \in BOOLEAN : forward_to_target_send(raises)
  \/ forward_to_client_receive
  \/ \E raises \in BOOLEAN : forward_to_client_send(raises)
  \/ websocket_proxy_return

Next ==
  \/ LimiterNext
  \/ MiddlewareNext
  \/ RegistryNext
  \/ MonitorNext
  \/ SelectionNext
  \/ RotationNext
  \/ ProxyNext
  \/ RegistryNamesNext
  \/ UnaryNext
  \/ MuxNext
  \/ DuplexNext
  \/ ShutdownNext
  \/ StopNext
  \/ CleanupNext
  \/ ManagerNext

Spec == Init /\ [][Next]_vars

SpecLimiter == Init /\ [][LimiterNext]_vars
SpecMiddleware == Init /\ [][MiddlewareNext]_vars
\* each client may hold one timestamp in its window
CleanupInit == Init /\ config.requests_per_minute = 1

SpecCleanup == CleanupInit /\ [][CleanupNext]_vars
\* the limiter's configuration plays no part in the registry and the balancer
BalancerInit == Init /\ config.requests_per_minute = MaxRpm

SpecSelection == BalancerInit /\ [][SelectionNext]_vars
SpecRotation == BalancerInit /\ [][RotationNext]_vars
SpecGateway == BalancerInit /\ [][RegistryNext \/ MonitorNext \/ ProxyNext]_vars

\* the registry driven through its own interface and probed by its loop
SpecRegistry == BalancerInit /\ [][RegistryNamesNext]_vars

\* the registry with its loop scheduled: the event loop runs the monitoring
\* task when it can go on, and every probe ends, by its answer or by the
\* timeout of its request
SpecMonitor ==
  /\ BalancerInit /\ [][RegistryNamesNext]_vars
  /\ WF_vars(health_cycle_start)
  /\ WF_vars(health_cycle_end)
  /\ \A n \in RegistryNames :
       WF_vars(\E resp \in ProbeResponses, rt \in ResponseTimes :
                 update_service_health(n, CheckServiceHealth(resp), rt))

\* the registry with callers that register, unregister, stop and clean up
SpecStop == BalancerInit /\ [][StopNext]_vars

\* the gateway once lifespan has registered the service at start-up: the
\* record holds the outcome of the registration probe and the loop runs
StartupInit ==
  /\ \E url \in Urls, healthy \in BOOLEAN :
       /\ services = [n \in ServiceNames |-> NewServiceInfo(n, url, healthy, 0)]
       /\ registered = [n \in ServiceNames |-> {url}]
  /\ is_running = TRUE
  /\ loop = "waiting"
  /\ lastCall = [op |-> "register", name |-> CHOOSE n \in ServiceNames : TRUE,
                 result |-> TRUE, known |-> FALSE]
  /\ now = 0
  /\ config = [requests_per_minute |-> MaxRpm, burst_limit |-> DefaultBurstLimit,
               window_size |-> DefaultWindowSize]
  /\ requests = EmptyMap
  /\ requestKeys = <<>>
  /\ blocked_ips = EmptyMap
  /\ lastAllow = [c \in AllClients |-> None]
  /\ blockStart = [c \in AllClients |-> NoTime]
  /\ callCount = [c \in AllClients |-> 0]
  /\ firstCallAt = [c \in AllClients |-> NoTime]
  /\ pristine = TRUE
  /\ allowedLog = [c \in AllClients |-> <<>>]
  /\ mw = [client |-> None, limiter |-> FALSE, authOk |-> FALSE,
           status |-> 0, forwarded |-> FALSE]
  /\ probes = EmptyMap
  /\ regPending = EmptyMap
  /\ probed = {}
  /\ monitor = IdleMonitor
  /\ strategy = "round_robin"
  /\ service_instances = EmptyMap
  /\ round_robin_counters = EmptyMap
  /\ lastResolve = [service |-> None, url |-> Nothing, idx |-> 0, counter |-> 0]
  /\ lastReport = NoReport
  /\ rrLog = [s \in ServiceNames |-> <<>>]
  /\ calls = [i \in CallIds |-> IdleCall]
  /\ duplex = IdleDuplex
  /\ mux = IdleMux
  /\ lifespan = Serving
  /\ manager = NewManager

\* the request of a call in flight raises TimeoutException once the timeout
\* has run out, and the clock runs
SpecUnary ==
  /\ StartupInit /\ [][UnaryNext]_vars
  /\ WF_vars(Tick)
  /\ \A i \in CallIds : WF_vars(proxy_request_done(i, "timeout"))

SpecMux == StartupInit /\ [][MuxNext \/ MonitorNext]_vars

\* the manager as the gateway holds it once it serves
SpecManager == StartupInit /\ [][ManagerNext]_vars

\* the gateway's own steps in a session are taken when they can be; the
\* client and the backend send, close, stall and resume as they like
SpecDuplex ==
  /\ StartupInit /\ [][DuplexNext]_vars
  /\ WF_vars(forward_to_target_receive)
  /\ WF_vars(\E raises \in BOOLEAN : forward_to_target_send(raises))
  /\ WF_vars(forward_to_client_receive)
  /\ WF_vars(\E raises \in BOOLEAN : forward_to_client_send(raises))
  /\ WF_vars(websocket_proxy_return)

\* the gateway from start-up to after its shutdown
SpecShutdown == StartupInit /\ [][ShutdownNext]_vars

(* ------------------------------- claims -------------------------------- *)
\* number of the timestamps of q that lie within w seconds before t
InWindow(q, t, w) == Cardinality({i \in 1..Len(q) : t - q[i] <= w})
ActiveBlock(c) == c \in DOMAIN blocked_ips /\ now < blocked_ips[c]
PlacesNoBlock(c) ==
  c \in DOMAIN blocked_ips' =>
    c \in DOMAIN blocked_ips /\ blocked_ips'[c] = blocked_ips[c]

\* C1: the middleware answers 429 exactly when the limiter returned blocked,
\* and a request the limiter allowed (and that needs no credentials it lacks)
\* is passed on to its route handler instead of being answered by the
\* middleware.
C1_MiddlewareFollowsLimiter ==
  mw.client # None =>
    /\ (mw.status = 429) <=> ~mw.limiter
    /\ (mw.limiter /\ mw.authOk) => mw.forwarded

\* C2: with requests_per_minute = N <= burst_limit and no operation but
\* is_allowed since construction, a client's first N calls within one window
\* are allowed, the (N+1)-th within that window is rejected and places a
\* block, and every call before block_duration has elapsed since that
\* rejection is rejected.
C2_WindowThenBlock ==
  [][\A c \in Clients :
       (AllowEffect(c) /\ pristine
          /\ config.requests_per_minute <= config.burst_limit) =>
         LET N == config.requests_per_minute
             inFirstWindow == callCount[c] = 0
                              \/ now - firstCallAt[c] <= config.window_size
         IN /\ (callCount[c] < N /\ inFirstWindow) => lastAllow'[c] = "allowed"
            /\ (callCount[c] = N /\ inFirstWindow) =>
                  /\ lastAllow'[c] = "limit"
                  /\ c \in DOMAIN blocked_ips'
            /\ (blockStart[c] # NoTime /\ now < blockStart[c] + block_duration) =>
                  lastAllow'[c] = "blocked"]_vars

\* C2 witness: a call rejected because of the block, made after the window of
\* the first call has passed.
C2_Witness ==
  \E c \in Clients :
    /\ pristine
    /\ callCount[c] > config.requests_per_minute
    /\ lastAllow[c] = "blocked"
    /\ now - firstCallAt[c] > config.window_size
    /\ now < blockStart[c] + block_duration

\* C3 as stated: whenever requests_per_minute > burst_limit and the client has
\* burst_limit timestamps in the last 10 seconds, the next call is rejected,
\* places no block and records no timestamp.
C3_Original ==
  [][\A c \in Clients :
       (AllowEffect(c)
          /\ config.requests_per_minute > config.burst_limit
          /\ RecentRequests(RequestTimes(requests, c), now) >= config.burst_limit) =>
         /\ lastAllow'[c] # "allowed"
         /\ PlacesNoBlock(c)
         /\ Len(requests'[c]) <= Len(RequestTimes(requests, c))]_vars

\* C3 amended: the same for a client that is under no active block and holds
\* fewer than requests_per_minute timestamps in its window: the call is
\* burst-rejected, no block exists afterwards and the list keeps exactly its
\* in-window timestamps; and the first call made once fewer than burst_limit
\* timestamps are recent is allowed.
C3_BurstGuard ==
  [][\A c \in Clients :
       AllowEffect(c) =>
         LET q == RequestTimes(requests, c)
         IN /\ (/\ config.requests_per_minute > config.burst_limit
                 /\ ~ActiveBlock(c)
                 /\ InWindow(q, now, config.window_size) < config.requests_per_minute
                 /\ RecentRequests(q, now) >= config.burst_limit) =>
                  /\ lastAllow'[c] = "burst"
                  /\ c \notin DOMAIN blocked_ips'
                  /\ requests'[c] =
                       SelectSeq(q, LAMBDA ts : now - ts <= config.window_size)
            /\ (lastAllow[c] = "burst"
                   /\ RecentRequests(q, now) < config.burst_limit) =>
                  lastAllow'[c] = "allowed"]_vars

\* C3 witness: a burst rejection that left the client without a block.
C3_Witness ==
  \E c \in Clients :
    /\ lastAllow[c] = "burst"
    /\ config.requests_per_minute > config.burst_limit
    /\ c \notin DOMAIN blocked_ips
    /\ c \in DOMAIN requests
    /\ Len(requests[c]) >= config.burst_limit
    /\ Len(requests[c]) < config.requests_per_minute

\* a get_service_url call for s, by whichever caller
Resolves(s) == \E rnd \in 1..MaxInstances : ResolveEffect(s, rnd)

\* C4: once a completed probe cycle has marked a service unhealthy in the
\* registry, get_service_url returns no address for it.
C4_UnhealthyIsUnavailable ==
  [][\A s \in ServiceNames :
       (/\ Resolves(s)
        /\ s \in DOMAIN services /\ ~services[s].is_healthy
        /\ s \in probed /\ loop = "waiting") =>
         lastResolve'.url = Nothing]_vars

\* C5: get_service_url returns no address for a name that is not registered,
\* in particular after the name was unregistered.
C5_UnregisteredIsUnavailable ==
  [][\A s \in ServiceNames :
       (Resolves(s) /\ s \notin DOMAIN services) =>
         lastResolve'.url = Nothing]_vars

\* C6: under every strategy, the address get_service_url returns is that of
\* an instance whose is_healthy flag is true when it is selected, and a
\* service whose instances are all unhealthy gets no address.
C6_OnlyHealthySelected ==
  [][\A s \in ServiceNames :
       Resolves(s) =>
         LET insts == Instances(service_instances, s)
             i == lastResolve'.idx
         IN /\ lastResolve'.url # Nothing =>
                 /\ i \in 1..Len(service_instances'[s])
                 /\ service_instances'[s][i].is_healthy
                 /\ lastResolve'.url = Some(service_instances'[s][i].url)
                 /\ insts # <<>> => insts[i].is_healthy
            /\ (insts # <<>> /\ \A j \in 1..Len(insts) : ~insts[j].is_healthy) =>
                 lastResolve'.url = Nothing]_vars

\* C6 witness: the second instance was selected while the first is unhealthy.
C6_Witness ==
  \E s \in ServiceNames :
    /\ lastResolve.service = s /\ lastResolve.idx = 2
    /\ strategy # "round_robin"
    /\ Len(Instances(service_instances, s)) = 2
    /\ ~service_instances[s][1].is_healthy
    /\ service_instances[s][2].active_connections > 0

\* number of the entries a..b of log that are position i
Picked(log, a, b, i) == Cardinality({j \in a..b : log[j] = i})

\* C7: under round robin, in any K consecutive selections made with the
\* instance list and the health flags unchanged, each of the M healthy
\* instances is selected floor(K/M) or ceil(K/M) times, whatever the counter
\* was before.
C7_RoundRobinFair ==
  \A s \in ServiceNames :
    strategy = "round_robin" =>
      LET log == rrLog[s]
          h == HealthyIdx(Instances(service_instances, s))
          M == Len(h)
      IN \A a \in 1..Len(log), b \in 1..Len(log) :
           a <= b =>
             /\ M > 0
             /\ \A p \in 1..M :
                  LET K == b - a + 1
                  IN Picked(log, a, b, h[p]) \in {K \div M, (K + M - 1) \div M}

\* C7 witness: three consecutive selections over two healthy instances that
\* started at the second one, the counter being non-zero beforehand.
C7_Witness ==
  \E s \in ServiceNames :
    /\ strategy = "round_robin"
    /\ Len(HealthyIdx(Instances(service_instances, s))) = 2
    /\ Len(rrLog[s]) >= 3
    /\ rrLog[s][1] = HealthyIdx(Instances(service_instances, s))[2]

\* total weight of the healthy instances
RECURSIVE TotalWeight(_, _)
TotalWeight(insts, h) ==
  IF h = <<>> THEN 0 ELSE insts[Head(h)].weight + TotalWeight(insts, Tail(h))

\* C8: under weighted round robin, in any K consecutive selections made with
\* the instance list and the health flags unchanged, K a multiple of the total
\* weight W, the instance of weight w is selected K*w/W times.
C8_WeightedShare ==
  \A s \in ServiceNames :
    strategy = "weighted_round_robin" =>
      LET log == rrLog[s]
          insts == Instances(service_instances, s)
          h == HealthyIdx(insts)
          W == TotalWeight(insts, h)
      IN \A a \in 1..Len(log), b \in 1..Len(log) :
           (a <= b /\ W > 0 /\ (b - a + 1) % W = 0) =>
             \A p \in 1..Len(h) :
               Picked(log, a, b, h[p]) * W = (b - a + 1) * insts[h[p]].weight

\* C8 witness: a full cycle over two healthy instances of weights 1 and 3.
C8_Witness ==
  \E s \in ServiceNames :
    /\ strategy = "weighted_round_robin"
    /\ Len(Instances(service_instances, s)) = 2
    /\ service_instances[s][1].is_healthy /\ service_instances[s][2].is_healthy
    /\ service_instances[s][1].weight = 1 /\ service_instances[s][2].weight = 3
    /\ Len(rrLog[s]) >= 4

\* C9: under least connections the selected instance is healthy, no healthy
\* instance has fewer active connections, and every healthy instance before it
\* in the list has more.
C9_LeastConnectionsFirst ==
  [][\A s \in ServiceNames :
       (Resolves(s) /\ strategy = "least_connections"
          /\ lastResolve'.url # Nothing) =>
         LET insts == Instances(service_instances, s)
             i == lastResolve'.idx
         IN /\ i \in 1..Len(insts) /\ insts[i].is_healthy
            /\ \A j \in 1..Len(insts) :
                 insts[j].is_healthy =>
                   /\ insts[i].active_connections <= insts[j].active_connections
                   /\ j < i => insts[j].active_connections > insts[i].active_connections
            /\ lastResolve'.url = Some(insts[i].url)]_vars

\* C9 witness: the second instance was selected although the first is healthy,
\* because the first held more connections.
C9_Witness ==
  \E s \in ServiceNames :
    /\ strategy = "least_connections"
    /\ lastResolve.service = s /\ lastResolve.idx = 2
    /\ Len(Instances(service_instances, s)) = 2
    /\ service_instances[s][1].is_healthy
    /\ service_instances[s][2].active_connections >= 1
    /\ service_instances[s][1].active_connections
         >= service_instances[s][2].active_connections

\* number of the proxied calls in flight on instance k of service s
InFlight(s, k) ==
  Cardinality({i \in CallIds : calls[i].pc = "sent" /\ calls[i].service = s
                                 /\ calls[i].idx = k})

\* C10: an instance's active_connections equals the number of proxied calls
\* in flight on it.
C10_ConnectionsAreInFlight ==
  \A s \in DOMAIN service_instances :
    \A k \in 1..Len(service_instances[s]) :
      service_instances[s][k].active_connections = InFlight(s, k)

\* the last reading of the model's clock
LastReading == CHOOSE t \in TimePoints : \A u \in TimePoints : u <= t

\* the status a unary call ends with, by what happened to its backend request
ExpectedStatus(event) ==
  IF event = "response" THEN "relayed"
  ELSE IF event = "timeout" THEN "504"
  ELSE IF event = "connect_error" THEN "503"
  ELSE "500"

UnaryDone(i) == calls[i].kind = "unary" /\ calls[i].pc = "done"

\* C11: a unary call for which the balancer returned unavailable has sent no
\* request to a backend and is answered 503, which is not the status of an
\* unexpected gateway error
C11_UnavailableIs503 ==
  \A i \in CallIds :
    UnaryDone(i) /\ calls[i].event = "unavailable"
      => /\ calls[i].idx = 0
         /\ calls[i].status = "503"
         /\ calls[i].status # ProxyRequestStatus("error")

\* C12: every unary call that reached a backend ends with one outcome, never
\* revised: the response relayed, 504 after a timeout, 503 after a refused
\* connection, 500 after any other failure; the three failure statuses
\* differ, and a call whose backend stays silent does not stay pending once
\* the timeout has run out
C12_OneOutcomePerCall ==
  /\ [](\A i \in CallIds :
          UnaryDone(i) /\ calls[i].event \in ProxyEvents
            => calls[i].status = ExpectedStatus(calls[i].event))
  /\ Cardinality({ExpectedStatus(e) : e \in ProxyEvents}) = Cardinality(ProxyEvents)
  /\ [][\A i \in CallIds : calls[i].pc = "done" => calls'[i] = calls[i]]_vars
  /\ \A i \in CallIds :
       (/\ calls[i].kind = "unary" /\ calls[i].pc = "sent"
        /\ calls[i].sentAt + GatewayTimeout <= LastReading)
         ~> (calls[i].pc = "done")

C12_Witness ==
  \E i, j \in CallIds :
    /\ UnaryDone(i) /\ calls[i].event = "timeout" /\ calls[i].status = "504"
    /\ now >= GatewayTimeout
    /\ UnaryDone(j) /\ calls[j].event = "connect_error" /\ calls[j].status = "503"

\* C17: a registration whose probe fails returns ok and stores the service
\* with health flag false, so that the lookup returns nothing for it; and a
\* lookup that returned nothing returns the address only after a probe (of
\* the loop or of a new registration) that succeeded
C17_RegisterStoresUnhealthy ==
  [][\A n \in RegistryNames :
       /\ register_service_done(n, FALSE)
            => /\ lastCall'.result
               /\ n \in DOMAIN services' /\ ~services'[n].is_healthy
               /\ RegistryUrl(services', n) = Nothing
       /\ RegistryUrl(services, n) = Nothing /\ RegistryUrl(services', n) # Nothing
            => \/ register_service_done(n, TRUE)
               \/ \E rt \in ResponseTimes : update_service_health(n, TRUE, rt)]_vars

C17_Witness ==
  \E n \in RegistryNames :
    /\ lastCall = [op |-> "register", name |-> n, result |-> TRUE, known |-> FALSE]
    /\ n \in DOMAIN services /\ ~services[n].is_healthy /\ n \notin probed
    /\ RegistryUrl(services, n) = Nothing

\* C18: registering a name again with the address it is registered with
\* leaves the number of records unchanged and the one record of the name
\* holds the new registration
C18_ReRegisterInPlace ==
  [][\A n \in RegistryNames, healthy \in BOOLEAN :
       /\ register_service_done(n, healthy)
       /\ n \in DOMAIN services /\ services[n].url = regPending[n]
       => /\ Cardinality(DOMAIN services') = Cardinality(DOMAIN services)
          /\ services'[n].name = n /\ services'[n].url = regPending[n]
          /\ services'[n].is_healthy = healthy
          /\ services'[n].response_time = NoTime]_vars

C18_Witness ==
  \E n \in RegistryNames :
    /\ lastCall.op = "register" /\ lastCall.name = n /\ lastCall.known
    /\ DOMAIN services = RegistryNames
    /\ n \notin probed /\ ~services[n].is_healthy

\* C19: unregistering a name that is not registered returns not-found and
\* changes neither the records, nor their health flags, nor the monitoring
C19_UnregisterUnknown ==
  [][\A n \in RegistryNames :
       unregister_service(n) /\ n \notin DOMAIN services
       => /\ ~lastCall'.result
          /\ UNCHANGED <<services, is_running, loop, probes, regPending>>]_vars

C19_Witness ==
  /\ lastCall.op = "unregister" /\ ~lastCall.result
  /\ lastCall.name \notin DOMAIN services
  /\ DOMAIN services # {} /\ is_running /\ loop = "probing"

\* the addresses of the entries of a list of names that stand for name n
ListedAddresses(list, n) == {services[m].url : m \in {x \in list : x = n}}

\* C20: once a probe cycle has run over the registry, the healthy and the
\* unhealthy list together hold exactly the addresses registered under a name,
\* each in one list only
C20_ListsPartitionAddresses ==
  \A n \in RegistryNames :
    /\ n \in DOMAIN services /\ loop = "waiting" /\ DOMAIN services \subseteq probed
    => LET healthy == ListedAddresses(HealthyServices(services), n)
           unhealthy == ListedAddresses(UnhealthyServices(services), n)
       IN /\ healthy \cup unhealthy = Registered(registered, n)
          /\ healthy \cap unhealthy = {}

SidesOpen == duplex.pc = "open" /\ duplex.client = "open" /\ duplex.backend = "open"

\* the frames 1..n in the order sent
Frames(n) == [k \in 1..n |-> k]

\* the frames of a direction that the gateway holds or has yet to receive
InTransit(leg) ==
  (IF leg.loop.pc = "sending" THEN <<leg.loop.held>> ELSE <<>>) \o leg.queue

\* C13: once one forwarding loop of a duplex session has ended, the session
\* is torn down (both loops over, both connections closed) without the other
\* side closing or sending anything
C13_LoopEndTearsDown ==
  \A dir \in Directions, k \in 0..(MaxFrames - 1) :
    LET other == CHOOSE d \in Directions : d # dir
    IN (/\ duplex.pc = "open" /\ duplex[dir].loop.pc = "ended"
        /\ Source(duplex, other) = "open" /\ duplex[other].sent = k)
         ~> (\/ duplex.pc = "returned"
             \/ Source(duplex, other) # "open"
             \/ duplex[other].sent > k)

\* C14: while both sides of a duplex session are open, the frames handed to
\* the destination of each direction followed by those in transit are the
\* frames its source sent, in order and once each; and every frame sent is
\* handed over unless a side closes or the destination of that same direction
\* stops reading, whatever the other direction does
C14_FramesInOrderOnce ==
  /\ [](SidesOpen =>
          \A dir \in Directions :
            duplex[dir].delivered \o InTransit(duplex[dir])
              = Frames(duplex[dir].sent))
  /\ \A dir \in Directions, k \in 1..MaxFrames :
       (SidesOpen /\ duplex[dir].sent >= k /\ Len(duplex[dir].delivered) < k)
         ~> (\/ Len(duplex[dir].delivered) >= k
             \/ ~SidesOpen
             \/ duplex[dir].stalled)

C14_Witness ==
  /\ SidesOpen
  /\ duplex.up.stalled /\ duplex.up.loop.pc = "sending"
  /\ duplex.up.delivered = <<>>
  /\ duplex.down.delivered = Frames(MaxFrames)

\* the connection is held by the manager and its client has not gone
MuxAlive(m) == m.active /\ m.client = "open" /\ m.pc # "closed"

\* the replies to client messages (the first reply is the greeting)
MessageReplies(m) == IF m.replies = <<>> THEN <<>> ELSE Tail(m.replies)

\* a handled message that had no service field or named an unavailable service
Unroutable(h) ==
  h.body = "no_service" \/ (h.body \in ServiceNames /\ ~h.resolved)

\* C15: on a live multiplexed connection a message without a service field
\* or naming a service that cannot be resolved is answered by one error reply
\* on that connection, after which the connection is still held, the handler
\* waits for the next message and the messages behind it are still to come
C15_InlineErrorReply ==
  /\ [](MuxAlive(mux) =>
          \A j \in 1..Len(mux.handled) :
            Unroutable(mux.handled[j]) =>
              LET to == {r \in 1..Len(mux.replies) :
                           mux.replies[r].to = mux.handled[j].id}
              IN /\ Cardinality(to) = 1
                 /\ \A r \in to : mux.replies[r].type = "error")
  /\ [][/\ MuxAlive(mux) /\ Len(mux'.handled) = Len(mux.handled) + 1
        /\ Unroutable(mux'.handled[Len(mux'.handled)])
        => LET h == mux'.handled[Len(mux'.handled)]
           IN /\ mux'.replies = Append(mux.replies, [to |-> h.id, type |-> "error"])
              /\ MuxAlive(mux') /\ mux'.pc = "receiving"
              /\ mux'.inbox = SelectSeq(mux.inbox, LAMBDA x : x.id # h.id)]_vars

C15_Witness ==
  /\ MuxAlive(mux) /\ Len(mux.handled) = MaxMessages
  /\ mux.handled[1].body = "no_service"
  /\ mux.handled[2].body \in ServiceNames /\ Unroutable(mux.handled[2])
  /\ Len(mux.replies) = MaxMessages + 1

\* C16: on a live multiplexed connection the messages are handled in the
\* order they arrived, the replies are sent in that order, and a message is
\* taken up only when every earlier one has its reply
C16_OneAtATimeInOrder ==
  MuxAlive(mux) =>
    /\ \A j \in 1..Len(mux.handled) : mux.handled[j].id = j
    /\ \A j \in 1..Len(MessageReplies(mux)) : MessageReplies(mux)[j].to = j
    /\ Len(MessageReplies(mux))
         = Len(mux.handled) - (IF mux.pc = "posting" THEN 1 ELSE 0)

C16_Witness ==
  /\ MuxAlive(mux) /\ mux.pc = "posting" /\ mux.cur = MaxMessages
  /\ Len(mux.handled) = MaxMessages /\ Len(mux.inbox) = 0
  /\ \A j \in 1..(MaxMessages - 1) : MessageReplies(mux)[j].type = "result"
  /\ Len(MessageReplies(mux)) = MaxMessages - 1
LoopAlive == loop \in {"waiting", "probing"}

\* C22: once the shutdown sequence of the gateway has finished, the probe
\* loop has been stopped and has ended, and no probe cycle starts any more
C22_ShutdownStopsProbing ==
  /\ [](lifespan.pc = "stopped" => ~is_running /\ ~LoopAlive)
  /\ [][lifespan.pc = "stopped" => ~health_cycle_start]_vars
\* C23: an is_allowed call for a client under an active block is rejected
\* and leaves the client's block time and timestamp list, and those of every
\* other client, as they were
C23_BlockedCallChangesNothing ==
  [][\A c \in Clients :
       (AllowEffect(c) /\ ActiveBlock(c)) =>
         /\ lastAllow'[c] = "blocked"
         /\ blocked_ips' = blocked_ips
         /\ requests' = requests]_vars

\* C23 witness: a call rejected because of a block, made when the oldest
\* timestamp of the client had left the window
C23_Witness ==
  \E c \in Clients :
    /\ lastAllow[c] = "blocked" /\ ActiveBlock(c)
    /\ c \in DOMAIN requests /\ requests[c] # <<>>
    /\ now - requests[c][1] > config.window_size
\* the balancer holds an instance of service s with this address
Holds(si, s, url) == \E i \in 1..Len(Instances(si, s)) : si[s][i].url = url

\* C24: update_instance_health and update_instance_response_time for a
\* service or address the balancer does not hold return failure and change
\* neither the instance lists, nor the rotation counters, nor the strategy
C24_UnknownFeedbackIsNoOp ==
  [][\A s \in ServiceNames, url \in Urls :
       (/\ ~Holds(service_instances, s, url)
        /\ \/ \E healthy \in BOOLEAN : update_instance_health(s, url, healthy)
           \/ \E rt \in ResponseTimes : update_instance_response_time(s, url, rt))
       => /\ ~lastReport'.result
          /\ UNCHANGED <<service_instances, round_robin_counters, strategy>>]_vars

\* C24 witness: a failed health report for an address the balancer does not
\* hold, while it holds a used instance of the service at another address
C24_Witness ==
  \E s \in ServiceNames :
    /\ lastReport = [op |-> "health", result |-> FALSE]
    /\ Len(Instances(service_instances, s)) = 1
    /\ service_instances[s][1].active_connections > 0
    /\ service_instances[s][1].response_time > 0
\* C25: when cleanup_expired_entries has returned, no block that has run
\* out remains, every timestamp kept lies within the window, and no client
\* is left with an empty timestamp list
C25_CleanupLeavesNothingStale ==
  [][cleanup_expired_entries =>
       /\ \A c \in DOMAIN blocked_ips' : now < blocked_ips'[c]
       /\ \A c \in DOMAIN requests' :
            /\ requests'[c] # <<>>
            /\ \A i \in 1..Len(requests'[c]) :
                 now - requests'[c][i] <= config.window_size]_vars
AllWithin(q, t, w) == \A i \in 1..Len(q) : t - q[i] <= w

\* C27 as stated: after every is_allowed call, whatever its result, every
\* timestamp in the client's list is at most window_size seconds old
C27_Original ==
  [][\A c \in Clients :
       AllowEffect(c) =>
         AllWithin(RequestTimes(requests', c), now, config.window_size)]_vars

\* C27 amended: the same after every is_allowed call that is not rejected
\* because of an existing block; a call rejected because of an existing block
\* evicts nothing and leaves the list as it was
C27_EvictedUnlessBlocked ==
  [][\A c \in Clients :
       AllowEffect(c) =>
         IF ActiveBlock(c)
         THEN RequestTimes(requests', c) = RequestTimes(requests, c)
         ELSE /\ lastAllow'[c] \in {"allowed", "limit", "burst"}
              /\ AllWithin(RequestTimes(requests', c), now, config.window_size)]_vars

\* C27 witness: a call that placed a block after evicting an allowed call's
\* timestamp and keeping one exactly window_size old
C27_Witness ==
  \E c \in Clients :
    /\ pristine /\ lastAllow[c] = "limit"
    /\ c \in DOMAIN requests /\ requests[c] # <<>>
    /\ Len(allowedLog[c]) > Len(requests[c])
    /\ allowedLog[c][1] < requests[c][1]
    /\ now - requests[c][1] = config.window_size
\* C28: a get_service_url call for a registered service of which the
\* balancer holds no instance creates exactly one instance, with the address
\* the registry stores, and returns that address, whatever health flag the
\* registry holds for the service
C28_LazyInstanceIgnoresHealth ==
  [][\A s \in ServiceNames :
       (Resolves(s) /\ Instances(service_instances, s) = <<>>
          /\ s \in DOMAIN services) =>
         /\ Len(Instances(service_instances', s)) = 1
         /\ Instances(service_instances', s)[1].url = services[s].url
         /\ lastResolve'.url = Some(services[s].url)]_vars
\* C29: no service in the balancer holds two instances with the same address
C29_InstancesUniqueByAddress ==
  \A s \in DOMAIN service_instances :
    \A i, j \in 1..Len(service_instances[s]) :
      i # j => service_instances[s][i].url # service_instances[s][j].url
\* the list a rotating strategy indexes: the healthy instances, each repeated
\* weight times under weighted round robin
RotationList(strat, insts, h) ==
  IF strat = "weighted_round_robin" /\ Expand(insts, h) # <<>>
  THEN Expand(insts, h) ELSE h

\* C30: in every get_service_url call under round robin or weighted round
\* robin the index used lies within the list indexed in that call, whatever
\* value the shared counter of the service was left with, and the call
\* returns the instance at that index
C30_RotationIndexInBounds ==
  [][\A s \in ServiceNames :
       LET insts == Candidates(service_instances, services, s)
           h == HealthyIdx(insts)
           list == RotationList(strategy, insts, h)
           k == RotationIndex(Counter(round_robin_counters, s), Len(list))
       IN (Resolves(s) /\ Rotating /\ h # <<>>) =>
            /\ k \in 0..(Len(list) - 1)
            /\ lastResolve'.idx = list[k + 1]
            /\ lastResolve'.url = Some(insts[list[k + 1]].url)]_vars

\* C30 witness: a selection made with the counter beyond the end of the list
\* it indexed, the list being shorter than when the counter was stored
C30_Witness ==
  \E s \in ServiceNames :
    LET insts == Instances(service_instances, s)
        list == RotationList(strategy, insts, HealthyIdx(insts))
    IN /\ Rotating /\ rrLog[s] # <<>>
       /\ lastResolve.service = s /\ lastResolve.url # Nothing
       /\ list # <<>>
       /\ lastResolve.counter >= Len(list)
\* C31: starting the probes of a cycle changes no lookup answer, and while
\* the probe of a registered name is in flight its record, and so the answer
\* of get_service_url, stays as it was before the probe; the probe's result
\* reaches the record in one step that writes the health flag, the response
\* time and the time of the check together, so that a record whose flag was
\* set by a probe is healthy exactly when it holds a response time
C31_ProbeResultAppliedAtOnce ==
  /\ [](\A n \in probed \cap DOMAIN services :
          services[n].is_healthy <=> services[n].response_time # NoTime)
  /\ [][/\ health_cycle_start =>
            \A n \in RegistryNames :
              RegistryUrl(services', n) = RegistryUrl(services, n)
        /\ \A n \in DOMAIN probes \cap DOMAIN probes' :
             probes[n] = "live" /\ probes'[n] = "live" =>
               /\ services'[n] = services[n]
               /\ RegistryUrl(services', n) = RegistryUrl(services, n)
        /\ \A n \in DOMAIN services \cap DOMAIN services' :
             (lastCall'.op = "probe" /\ services'[n] # services[n]) =>
               /\ lastCall'.name = n /\ probes[n] = "live"
               /\ services'[n].is_healthy = lastCall'.result
               /\ services'[n].last_health_check = now
               /\ services'[n].response_time \in
                    (IF lastCall'.result THEN ResponseTimes ELSE {NoTime})]_vars

\* C31 witness: a probe has just turned a record from unhealthy to healthy
\* with a response time while the probe of the other name is still in flight
C31_Witness ==
  \E n \in RegistryNames, m \in RegistryNames :
    /\ n # m
    /\ lastCall = [op |-> "probe", name |-> n, result |-> TRUE, known |-> TRUE]
    /\ n \in DOMAIN services /\ n \in probed
    /\ services[n].is_healthy /\ services[n].response_time \in ResponseTimes
    /\ m \in DOMAIN probes /\ probes[m] = "live"
    /\ m \in DOMAIN services /\ ~services[m].is_healthy
\* a probe of the monitoring loop that got the answer resp completes
ProbeCompletes(n, resp, rt) ==
  update_service_health(n, CheckServiceHealth(resp), rt)

\* a 200 whose body holds no status field that says otherwise
NoContraryStatus(resp) ==
  /\ resp.kind = "response" /\ resp.status_code = 200
  /\ ~(/\ resp.body.json /\ resp.body.object
        /\ "status" \in DOMAIN resp.body.fields
        /\ resp.body.fields["status"] # "healthy")

\* a 200 whose body is no JSON object or is one that says status healthy
DeclaredHealthy(resp) ==
  /\ resp.kind = "response" /\ resp.status_code = 200
  /\ \/ ~resp.body.json
     \/ ~resp.body.object
     \/ /\ "status" \in DOMAIN resp.body.fields
        /\ resp.body.fields["status"] = "healthy"

\* C32 as stated: after a completed probe of a registered service the flag
\* is healthy exactly when the answer was a 200 with no contrary status field
C32_Original ==
  [][(lastCall'.op = "probe" /\ lastCall'.known) =>
       \A resp \in ProbeResponses, rt \in ResponseTimes :
         ProbeCompletes(lastCall'.name, resp, rt) =>
           services'[lastCall'.name].is_healthy = NoContraryStatus(resp)]_vars

\* C32: after a completed probe of a registered service its flag is the
\* probe's result whatever the flag was before: healthy for a 200 whose body
\* is not a JSON object or is an object with status healthy, unhealthy for a
\* 200 object without that status, a non-200, a timeout or a connection
\* error; a record that is unhealthy after a probe holds no response time;
\* and whenever a probe of a registered service is in flight it can complete
\* either way, so neither flag value is final
C32_FlagFollowsProbe ==
  /\ [][(lastCall'.op = "probe" /\ lastCall'.known) =>
          \A resp \in ProbeResponses, rt \in ResponseTimes :
            ProbeCompletes(lastCall'.name, resp, rt) =>
              /\ services'[lastCall'.name].is_healthy = DeclaredHealthy(resp)
              /\ ~services'[lastCall'.name].is_healthy =>
                   services'[lastCall'.name].response_time = NoTime]_vars
  /\ [](\A n \in probed \cap DOMAIN services :
          ~services[n].is_healthy => services[n].response_time = NoTime)
  /\ [](\A n \in DOMAIN probes :
          (loop = "probing" /\ probes[n] = "live") =>
            /\ \E resp \in ProbeResponses : DeclaredHealthy(resp)
            /\ \E resp \in ProbeResponses : ~DeclaredHealthy(resp)
            /\ \A resp \in ProbeResponses, rt \in ResponseTimes :
                 ENABLED ProbeCompletes(n, resp, rt))

\* C32 witness: a probe has marked a registered service unhealthy, its
\* record holds no response time, and its next probe is in flight
C32_Witness ==
  \E n \in RegistryNames :
    /\ lastCall = [op |-> "probe", name |-> n, result |-> FALSE, known |-> TRUE]
    /\ n \in DOMAIN services /\ n \in probed
    /\ ~services[n].is_healthy /\ services[n].response_time = NoTime
    /\ loop = "probing" /\ n \in DOMAIN probes /\ probes[n] = "live"
\* a probe of name n by the monitoring loop completes
Probed(n) ==
  \E healthy \in BOOLEAN, rt \in ResponseTimes : update_service_health(n, healthy, rt)

\* C33: every cycle of the running loop starts a probe of every service
\* registered at that moment; a probe that fails marks only its own service
\* unhealthy, leaves the loop running and the probes of the other services
\* in flight; and a service that stays registered has a probe completed
\* again and again
C33_EveryServiceProbedForever ==
  /\ [][health_cycle_start =>
          /\ DOMAIN probes' = DOMAIN services
          /\ \A n \in DOMAIN services : probes'[n] = "live"]_vars
  /\ [][\A n \in RegistryNames, rt \in ResponseTimes :
          update_service_health(n, FALSE, rt) =>
            /\ \A m \in DOMAIN services \ {n} : services'[m] = services[m]
            /\ is_running' = is_running /\ loop' = loop
            /\ \A m \in DOMAIN probes \ {n} :
                 m \in DOMAIN probes' /\ probes'[m] = probes[m]]_vars
  /\ \A n \in RegistryNames :
       <>[](n \in DOMAIN services) => []<><<Probed(n)>>_vars

\* C33 witness: in a running cycle the probe of one service has failed and
\* marked it unhealthy while the probe of the other, healthy, service is
\* still in flight
C33_Witness ==
  \E n \in RegistryNames, m \in RegistryNames :
    /\ n # m /\ is_running /\ loop = "probing"
    /\ lastCall = [op |-> "probe", name |-> n, result |-> FALSE, known |-> TRUE]
    /\ n \in DOMAIN services /\ ~services[n].is_healthy /\ n \notin DOMAIN probes
    /\ m \in DOMAIN services /\ services[m].is_healthy
    /\ m \in DOMAIN probes /\ probes[m] = "live"
\* number of probe-loop tasks that have been created and have not finished
AliveTasks == (IF TaskAlive(loop) THEN 1 ELSE 0) + monitor.older

\* a register_service call returns
Registers == \E n \in RegistryNames, healthy \in BOOLEAN : register_service_done(n, healthy)

\* C34: with any number of register_service calls, overlapping in any way,
\* no probe-loop task exists before the first of them has stored its
\* record, that call creates the task whatever its probe said, no other
\* call creates one, and at most one probe-loop task is alive at any time
C34_AtMostOneLoop ==
  /\ [](AliveTasks <= 1)
  /\ [](lastCall.op = None => AliveTasks = 0)
  /\ [](DOMAIN services # {} => AliveTasks = 1)
  /\ [][Registers =>
          /\ is_running' /\ AliveTasks' = 1
          /\ AliveTasks = 1 => (loop' = loop /\ monitor' = monitor)]_vars
  /\ [][AliveTasks' # AliveTasks => Registers]_vars

\* C34 witness: two register_service calls that were in flight together
\* have returned, a third is in flight, and one loop task is alive
C34_Witness ==
  /\ DOMAIN services = RegistryNames
  /\ regPending # EmptyMap
  /\ lastCall.op = "register"
  /\ is_running /\ AliveTasks = 1
\* C35: at the return of stop_health_monitoring, and of cleanup,
\* is_running is false and no probe-loop task is alive, also when
\* register_service calls are in flight while the call is waiting
C35_StopLeavesNoLoop ==
  [][(stop_health_monitoring_return \/ cleanup_return) =>
       (~is_running' /\ AliveTasks' = 0)]_vars
\* C36: unblock_ip(c) returns True exactly when a block is stored for c,
\* removes that block and no other, and leaves every timestamp list as it
\* was; the next is_allowed call of a client unblocked while its window
\* holds requests_per_minute timestamps is rejected and blocks the client
\* again until block_duration after that call
C36_UnblockRemovesOnlyTheBlock ==
  [][\A c \in Clients :
       /\ unblock_ip(c) =>
            /\ lastAllow'[c] = "unblocked" <=> c \in DOMAIN blocked_ips
            /\ lastAllow'[c] = "not_blocked" <=> c \notin DOMAIN blocked_ips
            /\ DOMAIN blocked_ips' = DOMAIN blocked_ips \ {c}
            /\ \A d \in DOMAIN blocked_ips' : blocked_ips'[d] = blocked_ips[d]
            /\ requests' = requests
       /\ (/\ AllowEffect(c)
           /\ lastAllow[c] = "unblocked"
           /\ InWindow(RequestTimes(requests, c), now, config.window_size)
                >= config.requests_per_minute) =>
            /\ lastAllow'[c] = "limit"
            /\ c \in DOMAIN blocked_ips'
            /\ blocked_ips'[c] = now + block_duration]_vars

\* C36 witness: a blocked client has just been unblocked while its window
\* holds requests_per_minute timestamps
C36_Witness ==
  \E c \in Clients :
    /\ lastAllow[c] = "unblocked"
    /\ c \notin DOMAIN blocked_ips
    /\ InWindow(RequestTimes(requests, c), now, config.window_size)
         >= config.requests_per_minute
\* C37: with block_duration above window_size and both limits at least 1,
\* an is_allowed call made under an active block leaves the end of the block
\* where it was, and the first is_allowed call a client makes at or after
\* the end of its block removes the block, is allowed and is recorded
C37_BlockRunsOut ==
  [][\A c \in Clients :
       (/\ AllowEffect(c)
        /\ c \in DOMAIN blocked_ips
        /\ block_duration > config.window_size
        /\ config.requests_per_minute >= 1 /\ config.burst_limit >= 1) =>
         IF now < blocked_ips[c]
         THEN /\ lastAllow'[c] = "blocked"
              /\ c \in DOMAIN blocked_ips' /\ blocked_ips'[c] = blocked_ips[c]
         ELSE /\ lastAllow'[c] = "allowed"
              /\ c \notin DOMAIN blocked_ips'
              /\ requests'[c] = <<now>>]_vars

\* C37 witness: a client whose only calls were is_allowed calls was blocked,
\* called again while blocked, and its call at the end of the block was
\* allowed
C37_Witness ==
  \E c \in Clients :
    /\ pristine /\ config.requests_per_minute = 1
    /\ blockStart[c] # NoTime /\ now >= blockStart[c] + block_duration
    /\ callCount[c] = MaxRpm + 1
    /\ lastAllow[c] = "allowed"
    /\ c \notin DOMAIN blocked_ips
    /\ requests[c] = <<now>>
\* no manager call is suspended at a send
Quiescent == manager.pending = {}

\* C38: in the manager the active connections, the keys of connection_info
\* and the keys of message_queues are the same set, a connection is in
\* service_connections[s] exactly when s is in its subscribed set, and
\* stats.active_connections is the number of active connections, at every
\* moment; and once every connect, subscribe, unsubscribe and send that was
\* started has come to its end, no subscriber set is empty
C38_BookkeepingConsistent ==
  /\ manager.active_connections = DOMAIN manager.connection_info
  /\ manager.active_connections = manager.message_queues
  /\ \A w \in Sockets, s \in RegistryNames :
       w \in Subscribers(manager.service_connections, s) <=> s \in Subscribed(manager, w)
  /\ manager.stats.active_connections = Cardinality(manager.active_connections)
  /\ Quiescent =>
       \A s \in DOMAIN manager.service_connections :
         manager.service_connections[s] # {}

\* C38 witness: all calls have ended; one connection is active and
\* subscribed to a service, the other has been removed and a service it
\* alone was subscribed to has no subscriber set any more
C38_Witness ==
  \E w \in Sockets, s \in RegistryNames :
    /\ Quiescent
    /\ manager.active_connections = {w}
    /\ DOMAIN manager.service_connections = {s}
    /\ manager.service_connections[s] = {w}
    /\ manager.stats.active_connections = 1
    /\ manager.connection_info[w].session_id = 2
\* C39: any two connections that are active in the manager at the same
\* time have different session ids
C39_SessionIdsDistinct ==
  \A v \in manager.active_connections, w \in manager.active_connections :
    v # w => manager.connection_info[v].session_id
               # manager.connection_info[w].session_id
\* C40: when universal_websocket takes a frame that is not a JSON object
\* (text json.loads rejects, or a JSON value that is no object), the
\* connection leaves the manager's active set and the handler ends without
\* a reply to that frame; after that nothing more is taken from the
\* connection and nothing is sent to it
C40_NotAnObjectEndsSession ==
  [][/\ (/\ Len(mux'.handled) = Len(mux.handled) + 1
         /\ mux'.handled[Len(mux'.handled)].body \in NotObjects) =>
          /\ ~mux'.active /\ mux'.pc = "closed"
          /\ mux'.replies = mux.replies
     /\ mux.pc = "closed" =>
          /\ mux'.pc = "closed" /\ ~mux'.active
          /\ mux'.handled = mux.handled
          /\ mux'.replies = mux.replies]_vars

\* C40 witness: after an answered frame a JSON value that is no object ended
\* the session, with the client still connected and a later frame waiting
C40_Witness ==
  /\ mux.pc = "closed" /\ ~mux.active /\ mux.client = "open"
  /\ Len(mux.handled) = 2
  /\ mux.handled[2].body = "non_object"
  /\ mux.inbox # <<>>
  /\ \E i \in 1..Len(mux.replies) : mux.replies[i].to = mux.handled[1].id
  /\ \A i \in 1..Len(mux.replies) : mux.replies[i].to # mux.handled[2].id
====
